---- MODULE Spec2Model ----
(***************************************************************************)
(* Model of the Office-Word-MCP-Server storage/lifecycle layer:            *)
(*   storage_adapter.py   StorageAdapter (s3 / disk / local backends)      *)
(*   document_manager.py  DocumentManager (scratch directory)              *)
(*   http_server.py       MCPHTTPHandler (tools/call, GET /documents)      *)
(* File contents are abstracted to small integers; a directory is a        *)
(* function from the names of the files it holds to their contents.        *)
(***************************************************************************)
EXTENDS Integers, Sequences, FiniteSets, TLC

VARIABLES
    storage_adapter,  \* the global _storage_adapter: what the instance keeps, or NoAdapter
    store,            \* documents held by the backend: name -> contents
    manager,          \* the global _document_manager is not None
    temp_dir_exists,  \* DocumentManager.temp_dir exists on disk
    scratch,          \* files in DocumentManager.temp_dir: name -> contents
    live,             \* history: the documents put and not deleted since, with the contents last put (0: the last put failed)
    last,             \* the last call made and what it returned
    handlers          \* the requests being handled, step by step: thread -> progress

vars == <<storage_adapter, store, manager, temp_dir_exists, scratch, live, last, handlers>>

(***************************************************************************)
(* Bounds                                                                  *)
(***************************************************************************)
NBytes == 2

Bytes == 1..NBytes

\* document names a caller hands to the storage adapter / document manager
Names == {"report", "report.docx"}

\* filename arguments a client sends in tools/call
ClientNames == {"report", "report.docx"}

\* tools a client calls: registered ones and an unregistered name (the template
\* operations and copy_document are called in the step-by-step model, StepTools)
CallTools == {"create_document", "get_document_text", "set_table_cell_padding",
              "does_not_exist"}

(***************************************************************************)
(* Strings and paths                                                       *)
(***************************************************************************)
\* Python: sub in s
Contains(s, sub) ==
    \E i \in 1..(Len(s) - Len(sub) + 1) : SubSeq(s, i, i + Len(sub) - 1) = sub

\* Python: s.endswith(suf)
EndsWith(s, suf) ==
    Len(s) >= Len(suf) /\ SubSeq(s, Len(s) - Len(suf) + 1, Len(s)) = suf

\* os.path.basename: what follows the last "/"
basename(p) ==
    LET I == {i \in 1..Len(p) : SubSeq(p, i, i) = "/"}
        k == IF I = {} THEN 0 ELSE CHOOSE i \in I : \A j \in I : j <= i
    IN SubSeq(p, k + 1, Len(p))

\* word_document_server.utils.file_utils.ensure_docx_extension
ensure_docx_extension(filename) ==
    IF EndsWith(filename, ".docx") THEN filename ELSE filename \o ".docx"

\* a local path: the directory it lies in and the file name
TempPath(name) == [dir |-> "temp", name |-> name]
StorePath(name) == [dir |-> "store", name |-> name]
NoPath == [dir |-> "", name |-> ""]

\* directory d with file name holding contents b
WriteFile(d, name, b) == [n \in (DOMAIN d) \cup {name} |-> IF n = name THEN b ELSE d[n]]

\* directory d without file name
RemoveFile(d, name) == [n \in (DOMAIN d) \ {name} |-> d[n]]

EmptyDir == [n \in {} |-> 0]

\* the contents of a file that was opened for writing and not written to the
\* end: the copy failed after it truncated its target
TruncatedFile == -1

\* where a copy into the backend fails: "" (it does not), "open" (before the
\* target is opened: nothing is changed), "write" (after the target was opened)
\* or "stat" (after the contents were written, when shutil.copy2 copies the
\* source's mode and times onto the target)
UploadFaults == {"", "open", "write", "stat"}

\* names that denote a directory wherever they are joined to one: the directory
\* itself ("", ".") and its parent ("..")
IsDir(name) == name \in {"", ".", ".."}

\* the contents at a path; 0 when no file is there
ReadPath(st, sc, p) ==
    IF p.dir = "temp" /\ p.name \in DOMAIN sc THEN sc[p.name]
    ELSE IF p.dir = "store" /\ p.name \in DOMAIN st THEN st[p.name]
    ELSE 0

(***************************************************************************)
(* Environment read by StorageAdapter.__init__                             *)
(***************************************************************************)
\* an environment variable that is not set
Unset == "<unset>"

\* os.getenv(name, default)
getenv(value, default) == IF value = Unset THEN default ELSE value

LowerChar(c) ==
    CASE c = "S" -> "s" [] c = "D" -> "d" [] c = "I" -> "i" [] c = "K" -> "k"
      [] c = "L" -> "l" [] c = "O" -> "o" [] c = "C" -> "c" [] c = "A" -> "a"
      [] c = "G" -> "g"
      [] OTHER -> c

\* str.lower(), over the letters the configured values use
RECURSIVE lower(_)
lower(s) == IF s = "" THEN "" ELSE LowerChar(SubSeq(s, 1, 1)) \o lower(SubSeq(s, 2, Len(s)))

\* the environments a process is started in: the configuration variables, the
\* answer of the bucket probe and the outcome of creating the disk directory.
\* The credentials vary where the object store is asked for, the directories
\* where it is not.
Envs ==
    [ STORAGE_TYPE          : {"s3", "S3"},
      BASE_URL              : {Unset},
      S3_BUCKET_NAME        : {Unset, "bkt"},
      AWS_ACCESS_KEY_ID     : {Unset, "id"},
      AWS_SECRET_ACCESS_KEY : {Unset, "key"},
      DISK_PATH             : {Unset},
      DOCUMENTS_DIR         : {Unset},
      head_bucket           : {"ok", "ClientError"},
      makedirs_disk         : {"ok", "PermissionError"} ]
    \cup
    [ STORAGE_TYPE          : {Unset, "disk", "local", "gcs"},
      BASE_URL              : {Unset, "http://h"},
      S3_BUCKET_NAME        : {Unset},
      AWS_ACCESS_KEY_ID     : {Unset},
      AWS_SECRET_ACCESS_KEY : {Unset},
      DISK_PATH             : {Unset},
      DOCUMENTS_DIR         : {Unset},
      head_bucket           : {"ok"},
      makedirs_disk         : {"ok", "PermissionError", "OSError"} ]
    \cup
    [ STORAGE_TYPE          : {"disk", "local"},
      BASE_URL              : {Unset},
      S3_BUCKET_NAME        : {Unset},
      AWS_ACCESS_KEY_ID     : {Unset},
      AWS_SECRET_ACCESS_KEY : {Unset},
      DISK_PATH             : {Unset},
      DOCUMENTS_DIR         : {"/docs"},
      head_bucket           : {"ok"},
      makedirs_disk         : {"ok"} ]

NoEnv ==
    [ STORAGE_TYPE |-> Unset, BASE_URL |-> Unset, S3_BUCKET_NAME |-> Unset,
      AWS_ACCESS_KEY_ID |-> Unset, AWS_SECRET_ACCESS_KEY |-> Unset,
      DISK_PATH |-> Unset, DOCUMENTS_DIR |-> Unset,
      head_bucket |-> "ok", makedirs_disk |-> "ok" ]

\* template_tools.TEMPLATE_FILENAME
TEMPLATE_FILENAME == ".template.docx"

\* template_tools.TEMPLATE_DIR, read from the environment when the module is loaded
TEMPLATE_DIR(e) == getenv(e.DISK_PATH, getenv(e.DOCUMENTS_DIR, "/mnt/disk/documents"))

(***************************************************************************)
(* StorageAdapter construction                                             *)
(***************************************************************************)
\* template_dir: where template_tools keeps its template, seen from the
\* directory the instance stores in (disk_path, local_path): "here" (that
\* directory), "elsewhere" (another one; the object store is no directory), or
\* "" while the process has neither an instance nor a template
NoAdapter == [storage_type |-> "none", base_url |-> "", s3_bucket |-> "", attrs |-> {}, err |-> "", template_dir |-> ""]

\* StorageAdapter._init_local: sets local_path, leaves storage_type as it is
init_local(self, e) ==
    LET local_path == getenv(e.DOCUMENTS_DIR, "./documents")
    IN  [self EXCEPT !.attrs = @ \cup {"local_path"},
                     !.template_dir = IF local_path = TEMPLATE_DIR(e) THEN "here"
                                      ELSE "elsewhere"]

\* the fallback of _init_s3 and _init_disk: self.storage_type = 'local'; self._init_local()
fall_back_to_local(self, e) ==
    init_local([self EXCEPT !.storage_type = "local"], e)

\* StorageAdapter._init_disk
init_disk(self, e) ==
    LET disk_path == getenv(e.DISK_PATH, "/mnt/disk/documents")
    IN  CASE e.makedirs_disk = "ok" ->
               [self EXCEPT !.attrs = @ \cup {"disk_path"},
                            !.template_dir = IF disk_path = TEMPLATE_DIR(e) THEN "here"
                                             ELSE "elsewhere"]
          [] e.makedirs_disk = "PermissionError" -> fall_back_to_local(self, e)
          [] OTHER -> [NoAdapter EXCEPT !.err = e.makedirs_disk]

\* StorageAdapter._init_s3
init_s3(self, e) ==
    LET withCreds == [self EXCEPT !.attrs = @ \cup {"s3_bucket", "s3_region", "s3_access_key", "s3_secret_key"}]
    IN  IF \/ e.S3_BUCKET_NAME = Unset
           \/ e.AWS_ACCESS_KEY_ID = Unset
           \/ e.AWS_SECRET_ACCESS_KEY = Unset
        THEN fall_back_to_local(withCreds, e)
        ELSE IF e.head_bucket = "ok"
             THEN [withCreds EXCEPT !.s3_bucket = e.S3_BUCKET_NAME, !.attrs = @ \cup {"s3_client"}]
             ELSE fall_back_to_local([withCreds EXCEPT !.attrs = @ \cup {"s3_client"}], e)

\* StorageAdapter.__init__: the instance, or NoAdapter with err set when it raises
StorageAdapterInit(e) ==
    LET self == [NoAdapter EXCEPT !.storage_type = lower(getenv(e.STORAGE_TYPE, "disk")),
                                  !.template_dir = "elsewhere",
                                  !.base_url = getenv(e.BASE_URL, "")]
    IN  IF self.storage_type = "s3" THEN init_s3(self, e)
        ELSE IF self.storage_type = "disk" THEN init_disk(self, e)
        ELSE init_local(self, e)

\* what StorageAdapter() can produce, over the environments
Constructions == {StorageAdapterInit(e) : e \in Envs}

\* (mutant) get_storage_adapter that selects the backend anew on every call
get_storage_adapter_reselect(a, fresh) == fresh

\* get_storage_adapter: the global instance, constructed on first use;
\* fresh is what StorageAdapter() produces in the process's environment
get_storage_adapter(a, fresh) == IF a.storage_type = "none" THEN fresh ELSE a

(***************************************************************************)
(* StorageAdapter operations.  self is the adapter, st the backend's       *)
(* documents, sc the scratch directory.  Each returns a record: err is the *)
(* exception raised ("" when it returns), the rest is what it returns and  *)
(* the directories as it leaves them.                                      *)
(***************************************************************************)
\* (mutant) document_exists that takes any answer of head_object for "exists"
document_exists_head(self, st, filename) ==
    IF self.storage_type = "s3" THEN TRUE
    ELSE filename \in DOMAIN st

\* StorageAdapter.document_exists
document_exists(self, st, filename) ==
    IF self.storage_type = "s3" THEN filename \in DOMAIN st      \* head_object: 200 / 404
    \* os.path.exists is true of a directory as well
    ELSE IF self.storage_type = "disk" THEN filename \in DOMAIN st \/ IsDir(filename)
    ELSE filename \in DOMAIN st \/ IsDir(filename)

\* StorageAdapter.download_document(filename, local_path), local_path in the
\* scratch directory; tmp says whether that directory exists
download_document(self, st, sc, tmp, filename, local_path) ==
    IF self.storage_type = "s3" \/ self.storage_type = "disk"
    THEN IF self.storage_type = "disk" /\ IsDir(filename)
         \* shutil.copy2 of a directory
         THEN [err |-> "IsADirectoryError", path |-> NoPath, scratch |-> sc]
         ELSE IF filename \notin DOMAIN st
         THEN [err |-> "FileNotFoundError", path |-> NoPath, scratch |-> sc]
         ELSE IF ~tmp
              \* the destination directory is gone: the copy cannot open its target
              THEN [err |-> "FileNotFoundError", path |-> NoPath, scratch |-> sc]
              ELSE [err |-> "", path |-> local_path,
                    scratch |-> WriteFile(sc, local_path.name, st[filename])]
    ELSE \* local: the backend's own file is returned, nothing is copied
         IF filename \notin DOMAIN st /\ ~IsDir(filename)
         THEN [err |-> "FileNotFoundError", path |-> NoPath, scratch |-> sc]
         ELSE [err |-> "", path |-> StorePath(filename), scratch |-> sc]

\* StorageAdapter.get_document_path
get_document_path(self, filename) ==
    IF self.storage_type = "s3" THEN "s3://" \o self.s3_bucket \o "/" \o filename
    ELSE IF self.storage_type = "disk" THEN "disk_path/" \o filename
    ELSE "local_path/" \o filename

\* StorageAdapter.get_document_url; fault: generate_presigned_url raises
get_document_url(self, filename, fault) ==
    IF self.storage_type = "s3"
    THEN IF ~fault
         THEN "https://" \o self.s3_bucket \o ".s3.amazonaws.com/" \o filename \o "?X-Amz-Expires=3600"
         ELSE "https://" \o self.s3_bucket \o ".s3.us-east-1.amazonaws.com/" \o filename
    ELSE IF self.storage_type = "disk" \/ self.storage_type = "local"
         THEN IF self.base_url # "" THEN self.base_url \o "/documents/" \o filename
              ELSE get_document_path(self, filename)
         ELSE filename

\* the locator upload_document returns
locator(self, filename) ==
    IF self.base_url # "" THEN self.base_url \o "/documents/" \o filename
    ELSE IF self.storage_type = "s3" THEN "s3://" \o self.s3_bucket \o "/" \o filename
    ELSE IF self.storage_type = "disk" THEN "disk_path/" \o filename
    ELSE "local_path/" \o filename

\* (mutant) upload_document that does not replace a document already stored
upload_document_keep(self, st, src, filename, fault) ==
    IF src = 0 THEN [err |-> "FileNotFoundError", locator |-> "", store |-> st]
    ELSE IF fault # "" THEN [err |-> "Exception", locator |-> "", store |-> st]
    ELSE [err |-> "", locator |-> locator(self, filename),
          store |-> IF filename \in DOMAIN st THEN st ELSE WriteFile(st, filename, src)]

\* StorageAdapter.upload_document(local_path, filename): src is the contents of
\* the file at local_path (0: no such file), fault where an I/O failure of the
\* backend strikes (UploadFaults)
upload_document(self, st, src, filename, fault) ==
    IF self.storage_type = "s3"
    THEN IF src = 0 THEN [err |-> "FileNotFoundError", locator |-> "", store |-> st]
         \* upload_file: the object is replaced by a completed upload only
         ELSE IF fault # "" THEN [err |-> "Exception", locator |-> "", store |-> st]
         ELSE [err |-> "", locator |-> locator(self, filename), store |-> WriteFile(st, filename, src)]
    ELSE IF src = 0 THEN [err |-> "FileNotFoundError", locator |-> "", store |-> st]
         ELSE IF fault = "open" THEN [err |-> "OSError", locator |-> "", store |-> st]
         \* shutil.copy2 has opened dest_path for writing: the document is truncated
         ELSE IF fault = "write"
              THEN [err |-> "OSError", locator |-> "", store |-> WriteFile(st, filename, TruncatedFile)]
         \* copyfile has written dest_path to the end and copystat is refused on
         \* it, as it is on a file that was there and belongs to another user
         ELSE IF fault = "stat" /\ filename \in DOMAIN st
              THEN [err |-> "PermissionError", locator |-> "", store |-> WriteFile(st, filename, src)]
         ELSE [err |-> "", locator |-> locator(self, filename), store |-> WriteFile(st, filename, src)]

\* the failures that can strike upload_document(local_path, filename): an upload
\* to the object store fails as a whole; copystat fails only on a file that was
\* there before the copy
upload_faults(self, st, filename) ==
    IF self.storage_type = "s3" THEN {"", "open"}
    ELSE IF filename \in DOMAIN st THEN UploadFaults
    ELSE UploadFaults \ {"stat"}

\* StorageAdapter.delete_document; fault: the backend refuses the removal
\* (delete_object answers an error; the directory of the disk or local backend
\* cannot be written to, so os.remove raises, which nothing catches)
delete_document(self, st, filename, fault) ==
    IF self.storage_type = "s3"
    THEN IF fault THEN [err |-> "Exception", ret |-> FALSE, store |-> st]
         \* delete_object succeeds whether or not the key exists
         ELSE [err |-> "", ret |-> TRUE, store |-> RemoveFile(st, filename)]
    ELSE IF filename \in DOMAIN st
         THEN IF fault THEN [err |-> "PermissionError", ret |-> FALSE, store |-> st]
              ELSE [err |-> "", ret |-> TRUE, store |-> RemoveFile(st, filename)]
         \* os.path.exists(file_path) is false: nothing is removed
         ELSE [err |-> "", ret |-> FALSE, store |-> st]

(***************************************************************************)
(* DocumentManager operations                                              *)
(***************************************************************************)
\* DocumentManager.get_local_path
get_local_path(self, st, sc, tmp, filename, create_if_missing) ==
    LET local_path == TempPath(filename)
    IN  IF document_exists(self, st, filename)
        THEN LET d == download_document(self, st, sc, tmp, filename, local_path)
             IN  IF d.err # ""
                 THEN [err |-> d.err, path |-> NoPath, scratch |-> sc, tmp |-> tmp]
                 ELSE [err |-> "", path |-> local_path, scratch |-> d.scratch, tmp |-> tmp]
        ELSE IF create_if_missing
             \* os.makedirs(os.path.dirname(local_path), exist_ok=True)
             THEN [err |-> "", path |-> local_path, scratch |-> sc, tmp |-> TRUE]
             ELSE [err |-> "FileNotFoundError", path |-> NoPath, scratch |-> sc, tmp |-> tmp]

\* DocumentManager.save_document
save_document(self, st, sc, local_path, filename, fault) ==
    \* a directory cannot be opened for the copy
    IF IsDir(local_path.name) THEN [err |-> "IsADirectoryError", locator |-> "", store |-> st]
    ELSE upload_document(self, st, ReadPath(st, sc, local_path), filename, fault)

\* (mutant) cleanup_temp that removes without looking whether the target exists
cleanup_temp_unguarded(sc, tmp, filename) ==
    IF filename # ""
    THEN IF filename \in DOMAIN sc
         THEN [scratch |-> RemoveFile(sc, filename), tmp |-> tmp, err |-> ""]
         ELSE [scratch |-> sc, tmp |-> tmp, err |-> "FileNotFoundError"]
    ELSE IF tmp
         THEN [scratch |-> EmptyDir, tmp |-> FALSE, err |-> ""]
         ELSE [scratch |-> sc, tmp |-> tmp, err |-> "FileNotFoundError"]

\* DocumentManager.cleanup_temp(filename); "" stands for None and for the empty
\* name.  err is the exception raised ("": none).
cleanup_temp(sc, tmp, filename) ==
    IF filename # ""
    THEN \* if os.path.exists(temp_path): os.remove(temp_path)
         IF tmp /\ IsDir(filename)
         THEN [scratch |-> sc, tmp |-> tmp, err |-> "IsADirectoryError"]
         ELSE [scratch |-> IF tmp /\ filename \in DOMAIN sc THEN RemoveFile(sc, filename) ELSE sc,
               tmp |-> tmp, err |-> ""]
    ELSE \* if os.path.exists(self.temp_dir): shutil.rmtree(self.temp_dir)
         [scratch |-> IF tmp THEN EmptyDir ELSE sc, tmp |-> FALSE, err |-> ""]

\* get_document_manager: the global instance, constructed on first use.
\* DocumentManager.__init__ takes the storage adapter and makes the scratch directory.
get_document_manager(a, mgr, tmp, fresh) ==
    IF mgr THEN [err |-> "", adapter |-> a, manager |-> TRUE, tmp |-> tmp]
    ELSE LET a2 == get_storage_adapter(a, fresh)
         IN  IF a2.err # ""
             THEN [err |-> a2.err, adapter |-> a, manager |-> FALSE, tmp |-> tmp]
             ELSE [err |-> "", adapter |-> a2, manager |-> TRUE, tmp |-> TRUE]

(***************************************************************************)
(* The registered operations                                               *)
(***************************************************************************)
\* build_tool_registry: the keys of tools_map
TOOL_REGISTRY ==
    { "create_document", "copy_document", "get_document_info", "get_document_text",
      "get_document_outline", "list_available_documents", "get_document_xml",
      "insert_header_near_text", "insert_line_or_paragraph_near_text",
      "insert_numbered_list_near_text", "add_paragraph", "add_heading", "add_picture",
      "add_table", "add_page_break", "delete_paragraph", "search_and_replace",
      "create_custom_style", "format_text", "format_table", "set_table_cell_shading",
      "apply_table_alternating_rows", "highlight_table_header", "merge_table_cells",
      "merge_table_cells_horizontal", "merge_table_cells_vertical",
      "set_table_cell_alignment", "set_table_alignment_all", "protect_document",
      "unprotect_document", "add_footnote_to_document", "add_footnote_after_text",
      "add_footnote_before_text", "add_footnote_enhanced", "add_endnote_to_document",
      "customize_footnote_style", "delete_footnote_from_document", "add_footnote_robust",
      "validate_document_footnotes", "delete_footnote_robust",
      "get_paragraph_text_from_document", "find_text_in_document", "convert_to_pdf",
      "get_all_comments", "get_comments_by_author", "get_comments_for_paragraph",
      "set_table_column_width", "set_table_column_widths", "set_table_width",
      "auto_fit_table_columns", "format_table_cell_text", "set_table_cell_padding",
      "replace_paragraph_block_below_header", "replace_block_between_manual_anchors",
      "set_template_from_file", "get_template_info", "clear_template",
      "set_default_font", "update_header_title_subtitle", "get_header_info" }

\* http_server.py: create_if_missing = 'create' in tool_name or 'add' in tool_name
create_if_missing_for(tool_name) ==
    Contains(tool_name, "create") \/ Contains(tool_name, "add")

\* the operations of template_tools that write: neither takes a 'filename'
TemplateTools == {"set_template_from_file", "clear_template"}

\* what calling an operation can come to: "saved" (it carries out its write and
\* returns its status text), "failed" (its write fails after the target was
\* opened and it returns the failure as its status text), "returned" (it returns
\* a status text and touches no file) or "raised" (the call raises, as
\* tool_func(**arguments) does on an argument the operation does not take).
\* os.remove, the write of clear_template, either removes the file or does not.
outcomes_of(tool_name, has_path) ==
    IF tool_name \in TemplateTools \cup {"copy_document"} /\ has_path THEN {"raised"}
    ELSE IF tool_name = "clear_template" THEN {"saved", "returned", "raised"}
    ELSE {"saved", "failed", "returned", "raised"}

\* what tool_func(**arguments) can come to in tools/call: of the registered
\* operations only copy_document takes a 'source_filename', any other raises
\* TypeError when the arguments carry one
call_outcomes(tool_name, has_filename, has_source) ==
    IF has_source /\ tool_name # "copy_document" THEN {"raised"}
    ELSE outcomes_of(tool_name, has_filename)

\* the contents an operation that saves can write: copy_document copies its
\* source and writes contents of its own only when it rewrites the header
\* (0: it does not; TruncatedFile: the rewritten copy could not be saved)
bytes_of(tool_name, outcome) ==
    IF outcome # "saved" THEN {0}
    ELSE IF tool_name = "copy_document" THEN {0, TruncatedFile} \cup Bytes
    ELSE Bytes

\* the contents an operation leaves in its target: b when it saves
written(outcome, b) == IF outcome = "failed" THEN TruncatedFile ELSE b

\* template_tools.set_template_from_file and clear_template: the template is the
\* file TEMPLATE_FILENAME in TEMPLATE_DIR; st is the backend's directory, which
\* the operations reach only when it is that directory.  b is the contents of
\* the file set_template_from_file copies.
invoke_template_tool(self, tool_name, st, sc, outcome, b) ==
    IF outcome = "saved" /\ self.template_dir = "here" /\ tool_name = "clear_template"
    \* os.remove(template_path) when os.path.exists(template_path)
    THEN [err |-> "", scratch |-> sc, saved |-> TEMPLATE_FILENAME \in DOMAIN st,
          store |-> RemoveFile(st, TEMPLATE_FILENAME)]
    ELSE IF outcome \in {"saved", "failed"} /\ self.template_dir = "here"
            /\ tool_name = "set_template_from_file"
    \* shutil.copy2(template_filename, template_path); an exception is caught
    \* and returned as "Failed to set template: ..."
    THEN [err |-> "", scratch |-> sc, saved |-> outcome = "saved",
          store |-> WriteFile(st, TEMPLATE_FILENAME, written(outcome, b))]
    ELSE [err |-> "", scratch |-> sc, store |-> st, saved |-> FALSE]

\* destination_filename arguments of copy_document: none, a path in the scratch
\* directory and a path in the directory of the backend
DestPaths == {NoPath, TempPath("report.docx"), StorePath("report.docx")}

\* file_utils.create_document_copy(source_path, dest_path): the file at source
\* is copied to dest.  Without a destination the copy gets a generated name,
\* which is none of the names followed here; the object store has no directory
\* a path could lie in.
create_document_copy(self, source, dest, st, sc, tmp, outcome) ==
    LET src == ReadPath(st, sc, source)
        in_store == dest.dir = "store" /\ self.storage_type # "s3"
        in_temp == dest.dir = "temp"
    IN  IF outcome \in {"saved", "failed"} /\ src # 0 /\ (in_temp => tmp)
        THEN [err |-> "", saved |-> outcome = "saved",
              scratch |-> IF in_temp THEN WriteFile(sc, dest.name, written(outcome, src))
                          ELSE sc,
              store |-> IF in_store THEN WriteFile(st, dest.name, written(outcome, src))
                        ELSE st]
        ELSE [err |-> "", scratch |-> sc, store |-> st, saved |-> FALSE]

\* document_tools.copy_document(source_filename, destination_filename,
\* document_title, document_subtitle): source is the path source_filename was
\* resolved to (NoPath: the call carries none), dest the destination_filename as
\* the client sent it, which the dispatcher does not resolve.  b is 0 when the
\* call gives neither title nor subtitle; otherwise the copy is opened and
\* saved again at its path, and b is what that leaves there: the contents of
\* the rewritten copy, or TruncatedFile when doc.save fails, which
\* copy_document passes over (except Exception: pass).
copy_document(self, has_path, source, dest, st, sc, tmp, outcome, b) ==
    LET full == IF dest = NoPath THEN dest
                ELSE [dest EXCEPT !.name = ensure_docx_extension(@)]
        c == create_document_copy(self, [source EXCEPT !.name = ensure_docx_extension(@)],
                                  full, st, sc, tmp, outcome)
        in_store == full.dir = "store" /\ self.storage_type # "s3"
        in_temp == full.dir = "temp"
    IN  \* TypeError: an unexpected keyword argument 'filename', or the required
        \* source_filename is missing
        IF has_path \/ source = NoPath
        THEN [err |-> "TypeError", scratch |-> sc, store |-> st, saved |-> FALSE]
        \* lines 267-368: if success and a title or subtitle is given
        ELSE IF c.saved /\ b # 0
        THEN [c EXCEPT !.scratch = IF in_temp THEN WriteFile(@, full.name, b) ELSE @,
                       !.store = IF in_store THEN WriteFile(@, full.name, b) ELSE @]
        ELSE c

\* What a registered operation does when it is called with filename = path: it
\* works on the file ensure_docx_extension(path), in the directory the path lies
\* in (st: the backend's documents, sc: the scratch directory), outcome being
\* one of outcomes_of.  create_document saves a new file; the operations of
\* template_tools work on the template; copy_document writes at its destination;
\* the other operations called here (CallTools, StepTools) save only over a
\* file that exists.  has_path is FALSE when the call carries no filename; self
\* is the storage adapter of the process; source and dest are the arguments of
\* copy_document; b is the contents a saving operation writes (bytes_of).
invoke_tool(self, tool_name, has_path, path, source, dest, st, sc, tmp, outcome, b) ==
    LET target == ensure_docx_extension(path.name)
        in_store == path.dir = "store"
        can_save == /\ has_path /\ (in_store \/ tmp)
                    /\ \/ tool_name = "create_document"
                       \/ target \in DOMAIN (IF in_store THEN st ELSE sc)
    IN  IF outcome = "raised"
        THEN [err |-> "Exception", scratch |-> sc, store |-> st, saved |-> FALSE]
        ELSE IF tool_name \in TemplateTools
        THEN IF has_path
             \* TypeError: got an unexpected keyword argument 'filename'
             THEN [err |-> "TypeError", scratch |-> sc, store |-> st, saved |-> FALSE]
             ELSE invoke_template_tool(self, tool_name, st, sc, outcome, b)
        ELSE IF tool_name = "copy_document"
        THEN copy_document(self, has_path, source, dest, st, sc, tmp, outcome, b)
        ELSE IF outcome \in {"saved", "failed"} /\ can_save
             \* doc.save(filename); an exception is caught and returned as text
             THEN [err |-> "", saved |-> outcome = "saved",
                   scratch |-> IF in_store THEN sc
                               ELSE WriteFile(sc, target, written(outcome, b)),
                   store |-> IF in_store THEN WriteFile(st, target, written(outcome, b))
                             ELSE st]
             ELSE [err |-> "", scratch |-> sc, store |-> st, saved |-> FALSE]

(***************************************************************************)
(* MCPHTTPHandler.handle_mcp_request, method tools/call                    *)
(***************************************************************************)
METHOD_NOT_FOUND == -32601
INVALID_PARAMS == -32602
INTERNAL_ERROR == -32603

\* HTTP statuses
HTTP_OK == 200
HTTP_NOT_FOUND == 404
HTTP_ERROR == 500

\* os.path.exists of a path in the scratch directory (a directory name exists
\* when the scratch directory does)
PathExists(sc, tmp, p) ==
    /\ p.dir = "temp"
    /\ IF IsDir(p.name) THEN tmp ELSE p.name \in DOMAIN sc

\* number of storage-adapter calls get_local_path makes
calls_of_get_local_path(self, st, filename) ==
    IF document_exists(self, st, filename) THEN 2 ELSE 1

\* lines 275-297: the 'filename' argument is resolved to a scratch path.
\* s is the request's progress record; code # 0 means the handler has returned.
resolve_primary(s, tool_name, has_filename, filename) ==
    IF ~has_filename THEN s
    ELSE LET filename_base == basename(filename)
             create_if_missing == create_if_missing_for(tool_name)
             n == calls_of_get_local_path(s.adapter, s.store, filename_base)
             r == get_local_path(s.adapter, s.store, s.scratch, s.tmp, filename_base, create_if_missing)
             r2 == get_local_path(s.adapter, s.store, s.scratch, s.tmp, filename_base, TRUE)
         IN  IF r.err = ""
             THEN [s EXCEPT !.local_path = r.path, !.scratch = r.scratch, !.tmp = r.tmp,
                            !.calls = @ + n,
                            !.passed = @ \cup {filename_base}]
             \* only FileNotFoundError is caught here
             ELSE IF r.err # "FileNotFoundError" THEN [s EXCEPT !.raised = r.err, !.calls = @ + n,
                            !.passed = @ \cup {filename_base}]
             ELSE IF create_if_missing
                  THEN IF r2.err = ""
                       THEN [s EXCEPT !.local_path = r2.path, !.scratch = r2.scratch,
                                      !.tmp = r2.tmp, !.calls = @ + n + n,
                                      !.passed = @ \cup {filename_base}]
                       ELSE [s EXCEPT !.raised = r2.err, !.calls = @ + n + n,
                                      !.passed = @ \cup {filename_base}]
                  ELSE [s EXCEPT !.code = INVALID_PARAMS, !.calls = @ + n,
                            !.passed = @ \cup {filename_base}]

\* lines 299-312: the 'source_filename' argument is resolved, never created
resolve_source(s, has_source, source_filename) ==
    IF ~has_source THEN s
    ELSE LET source_filename_base == basename(source_filename)
             n == calls_of_get_local_path(s.adapter, s.store, source_filename_base)
             r == get_local_path(s.adapter, s.store, s.scratch, s.tmp, source_filename_base, FALSE)
         IN  IF r.err = ""
             THEN [s EXCEPT !.source_path = r.path, !.scratch = r.scratch, !.tmp = r.tmp,
                            !.calls = @ + n,
                            !.passed = @ \cup {source_filename_base}]
             ELSE IF r.err # "FileNotFoundError" THEN [s EXCEPT !.raised = r.err, !.calls = @ + n,
                            !.passed = @ \cup {source_filename_base}]
             ELSE [s EXCEPT !.code = INVALID_PARAMS, !.calls = @ + n,
                            !.passed = @ \cup {source_filename_base}]

\* lines 346-349: the finally block
finally_cleanup(s) ==
    IF s.local_path # NoPath /\ PathExists(s.scratch, s.tmp, s.local_path)
    THEN LET c == cleanup_temp(s.scratch, s.tmp, basename(s.local_path.name))
         \* an exception raised in the finally block replaces the one in flight
         IN  [s EXCEPT !.scratch = c.scratch, !.tmp = c.tmp,
                       !.raised = IF c.err # "" THEN c.err ELSE @]
    ELSE s

\* (mutant) the name the document is saved under, without the extension rule
publish_name_raw(filename) == basename(filename)

\* the name the document is saved under, lines 324-332
publish_name(filename) ==
    LET filename_base == basename(filename)
    IN  IF filename_base # "" /\ ~EndsWith(filename_base, ".docx")
        THEN filename_base \o ".docx"
        ELSE filename_base

\* lines 315-319: the operation is called with the resolved path
call_operation(s, tool_name, has_filename, dest, outcome, b) ==
    CHOOSE res \in
      { [s EXCEPT !.invoked = TRUE, !.scratch = t.scratch, !.store = t.store,
                  !.saved = t.saved, !.raised = t.err]
        : t \in {invoke_tool(s.adapter, tool_name, has_filename, s.local_path,
                             s.source_path, dest, s.store, s.scratch, s.tmp,
                             outcome, b)} } : TRUE

\* lines 321-343: the scratch file is saved back under the name the client gave
save_back(s, filename, fault) ==
    LET \* line 322: local_path and os.path.exists(local_path)
        existed == s.local_path # NoPath /\ PathExists(s.scratch, s.tmp, s.local_path)
        checked == [s EXCEPT !.path_existed = existed,
                             !.path_bytes = ReadPath(s.store, s.scratch, s.local_path)]
        filename_base == publish_name(filename)
        up == save_document(s.adapter, s.store, s.scratch, s.local_path, filename_base, fault)
    IN  IF existed /\ filename_base # ""
        THEN IF up.err # ""
             THEN [checked EXCEPT !.raised = up.err, !.calls = @ + 1,
                                  !.store = up.store,
                                  !.passed = @ \cup {filename_base}]
             ELSE [checked EXCEPT !.store = up.store,
                                  !.published = filename_base,
                                  !.published_bytes = ReadPath(s.store, s.scratch, s.local_path),
                                  !.locator = up.locator,
                                  !.calls = @ + 1,
                                  !.passed = @ \cup {filename_base}]
        ELSE checked

\* lines 314-349: call the operation, save the scratch file back, clean up
invoke_and_publish(s, tool_name, has_filename, filename, dest, outcome, b, fault) ==
    CHOOSE res \in
      { finally_cleanup(IF c.raised # "" THEN c ELSE save_back(c, filename, fault))
        : c \in {call_operation(s, tool_name, has_filename, dest, outcome, b)} } : TRUE

\* a tools/call before its first step
start_call(a, mgr, tmp, sc, st) ==
    [code |-> 0, raised |-> "", message |-> "", status |-> HTTP_OK,
     adapter |-> a, manager |-> mgr, tmp |-> tmp, scratch |-> sc,
     store |-> st, local_path |-> NoPath, source_path |-> NoPath,
     invoked |-> FALSE, saved |-> FALSE, path_existed |-> FALSE, path_bytes |-> 0,
     published |-> "", published_bytes |-> 0,
     locator |-> "", calls |-> 0,
     \* the names handed to the document manager and the storage adapter
     passed |-> {}]

\* lines 265-362: tools/call of a registered operation, up to its return or to
\* the exception it raises (raised # "").  The steps are chained through
\* one-element sets so that each step's record is computed once.
call_registered(a, mgr, tmp, sc, st, tool_name, has_filename, filename, has_source, source_filename, dest, outcome, b, fault, fresh) ==
    CHOOSE r \in
      { IF m.err # "" THEN [start_call(a, mgr, tmp, sc, st) EXCEPT !.raised = m.err]
        ELSE CHOOSE r1 \in
          { IF s1.code # 0 \/ s1.raised # "" THEN s1
            ELSE CHOOSE r2 \in
              { IF s2.code # 0 \/ s2.raised # "" THEN s2
                ELSE invoke_and_publish(s2, tool_name, has_filename, filename,
                                        dest, outcome, b, fault)
                : s2 \in {resolve_source(s1, has_source, source_filename)} } : TRUE
            : s1 \in {resolve_primary(start_call(m.adapter, m.manager, m.tmp, sc, st),
                                      tool_name, has_filename, filename)} } : TRUE
        : m \in {get_document_manager(a, mgr, tmp, fresh)} } : TRUE

\* lines 374-384: except Exception as e -> error -32603 with message str(e)
except_Exception(r) ==
    IF r.raised # "" THEN [r EXCEPT !.code = INTERNAL_ERROR, !.message = r.raised]
    ELSE r

\* do_POST, lines 195-207: an exception that leaves handle_mcp_request is
\* answered with send_error(500)
do_POST_status(r) ==
    IF r.code = 0 /\ r.raised # "" THEN [r EXCEPT !.status = HTTP_ERROR] ELSE r

\* (mutant) tools/call that looks the operation up only after running the steps
tools_call_late_check(a, mgr, tmp, sc, st, tool_name, has_filename, filename, has_source, source_filename, dest, outcome, b, fault, fresh) ==
    CHOOSE res \in
      { IF tool_name \notin TOOL_REGISTRY THEN [r EXCEPT !.code = METHOD_NOT_FOUND] ELSE r
        : r \in {except_Exception(
                   call_registered(a, mgr, tmp, sc, st, tool_name, has_filename, filename,
                                   has_source, source_filename, dest, outcome, b, fault, fresh))} } : TRUE

\* (mutant) tools/call whose try block ends before the operation is called
tools_call_no_catch(a, mgr, tmp, sc, st, tool_name, has_filename, filename, has_source, source_filename, dest, outcome, b, fault, fresh) ==
    IF tool_name \notin TOOL_REGISTRY
    THEN [start_call(a, mgr, tmp, sc, st) EXCEPT !.code = METHOD_NOT_FOUND]
    ELSE CHOOSE res \in
      { do_POST_status(IF r.invoked THEN r ELSE except_Exception(r))
        : r \in {call_registered(a, mgr, tmp, sc, st, tool_name, has_filename, filename,
                                 has_source, source_filename, dest, outcome, b, fault, fresh)} } : TRUE

\* the whole of tools/call (lines 211-217, 251-362, 374-384) and the status
\* do_POST sends: the state it leaves and what it answers (code 0: a JSON-RPC result)
tools_call(a, mgr, tmp, sc, st, tool_name, has_filename, filename, has_source, source_filename, dest, outcome, b, fault, fresh) ==
    IF tool_name \notin TOOL_REGISTRY
    THEN [start_call(a, mgr, tmp, sc, st) EXCEPT !.code = METHOD_NOT_FOUND]
    ELSE do_POST_status(except_Exception(
             call_registered(a, mgr, tmp, sc, st, tool_name, has_filename, filename,
                             has_source, source_filename, dest, outcome, b, fault, fresh)))

(***************************************************************************)
(* document_manager.with_storage_sync                                      *)
(***************************************************************************)
\* the wrapper before its first step
start_wrapper(a, mgr, tmp, sc, st) ==
    [raised |-> "", result |-> "", locator |-> "", adapter |-> a, manager |-> mgr,
     tmp |-> tmp, scratch |-> sc, store |-> st, local_path |-> NoPath,
     invoked |-> FALSE, saved |-> FALSE, published |-> "", published_bytes |-> 0]

\* lines 117-135: the finally block, which runs whatever the try block did
wrapper_finally(w, filename) ==
    LET c == cleanup_temp(w.scratch, w.tmp, basename(filename))
    IN  [w EXCEPT !.scratch = c.scratch, !.tmp = c.tmp,
                  !.raised = IF c.err # "" THEN c.err ELSE @,
                  !.result = IF c.err # "" THEN "" ELSE @]

\* lines 105-128: the try block with its except clauses, the manager being there.
\* result is "Error" (a text prefixed "Error:"), "result" (the operation's own
\* text) or "result+url" (that text with the storage locator appended).
wrapper_try(w, tool_name, has_filename, has_source, filename, outcome, b, fault) ==
  CHOOSE res \in {
    LET \* lines 110-113: the path stands in for 'filename' and for 'source_filename';
        \* the wrapped operations are called without a destination
        t == invoke_tool(w.adapter, tool_name, has_filename, r.path,
                         IF has_source THEN r.path ELSE NoPath, NoPath,
                         w.store, r.scratch, r.tmp, outcome, b)
        up == save_document(w.adapter, t.store, t.scratch, r.path, basename(filename), fault)
        called == [w EXCEPT !.local_path = r.path, !.scratch = t.scratch, !.tmp = r.tmp,
                            !.store = t.store,
                            !.invoked = TRUE, !.saved = t.saved]
    IN  IF r.err # "" THEN [w EXCEPT !.result = "Error"]
        ELSE IF t.err # "" THEN [called EXCEPT !.result = "Error"]
        ELSE IF PathExists(t.scratch, r.tmp, r.path)
             THEN IF up.err # "" THEN [called EXCEPT !.result = "Error", !.store = up.store]
                  ELSE [called EXCEPT !.result = "result+url", !.locator = up.locator,
                                      !.store = up.store,
                                      !.published = basename(filename),
                                      !.published_bytes = ReadPath(t.store, t.scratch, r.path)]
             ELSE [called EXCEPT !.result = "result"]
    : r \in {get_local_path(w.adapter, w.store, w.scratch, w.tmp, filename,
                            create_if_missing_for(tool_name))}
  } : TRUE

\* the wrapper with_storage_sync(tool_func) called with keyword arguments:
\* raised is the exception that leaves it ("": it returns result)
with_storage_sync(a, mgr, tmp, sc, st, tool_name, has_filename, filename_arg, has_source, source_arg, outcome, b, fault, fresh) ==
    LET \* line 97: kwargs.get('filename') or kwargs.get('source_filename')
        filename == IF has_filename /\ filename_arg # "" THEN filename_arg
                    ELSE IF has_source THEN source_arg ELSE ""
        w0 == start_wrapper(a, mgr, tmp, sc, st)
        t0 == invoke_tool(a, tool_name, FALSE, NoPath, NoPath, NoPath, st, sc, tmp, outcome, b)
        m == get_document_manager(a, mgr, tmp, fresh)
    IN  IF filename = ""
        \* lines 99-101: the operation is called as it is
        THEN [w0 EXCEPT !.invoked = TRUE, !.raised = t0.err,
                        !.store = t0.store, !.saved = t0.saved,
                        !.result = IF t0.err = "" THEN "result" ELSE ""]
        \* line 103: get_document_manager() stands before the try block
        ELSE IF m.err # "" THEN [w0 EXCEPT !.raised = m.err]
        ELSE wrapper_finally(
                 wrapper_try([w0 EXCEPT !.adapter = m.adapter, !.manager = m.manager,
                                        !.tmp = m.tmp],
                             tool_name, has_filename, has_source, filename, outcome, b, fault),
                 filename)

(***************************************************************************)
(* MCPHTTPHandler.serve_document: GET /documents/{name}                    *)
(***************************************************************************)
\* the percent escapes the requests use
HexTable == [x \in {"20", "2E", "2e", "2F", "2f"} |->
                CASE x = "20" -> " " [] x \in {"2E", "2e"} -> "." [] OTHER -> "/"]

\* urllib.parse.unquote
RECURSIVE unquote(_)
unquote(u) ==
    IF u = "" THEN ""
    ELSE IF Len(u) >= 3 /\ SubSeq(u, 1, 1) = "%" /\ SubSeq(u, 2, 3) \in DOMAIN HexTable
         THEN HexTable[SubSeq(u, 2, 3)] \o unquote(SubSeq(u, 4, Len(u)))
         ELSE SubSeq(u, 1, 1) \o unquote(SubSeq(u, 2, Len(u)))

\* (mutant) serve_document that cleans up by deleting the document it served
serve_document_unlink(a, mgr, tmp, sc, st, url_name, fresh) ==
    LET filename == basename(unquote(url_name))
        storage == get_storage_adapter(a, fresh)
        m == get_document_manager(storage, mgr, tmp, fresh)
        s0 == [status |-> 0, body |-> 0, content_type |-> <<>>, disposition |-> "",
               adapter |-> a, manager |-> mgr, tmp |-> tmp, scratch |-> sc, store |-> st,
               filename |-> filename, local_path |-> NoPath, passed |-> {}]
        s1 == [s0 EXCEPT !.adapter = storage, !.manager = m.manager, !.tmp = m.tmp,
                         !.passed = {filename}]
        r == get_local_path(storage, st, sc, m.tmp, filename, FALSE)
        c == cleanup_temp(r.scratch, r.tmp, filename)
    IN  IF storage.err # "" THEN [s0 EXCEPT !.status = HTTP_ERROR]
        ELSE IF ~document_exists(storage, st, filename) THEN [s1 EXCEPT !.status = HTTP_NOT_FOUND]
        ELSE IF r.err = "FileNotFoundError" THEN [s1 EXCEPT !.status = HTTP_NOT_FOUND]
        ELSE IF r.err # "" THEN [s1 EXCEPT !.status = HTTP_ERROR]
        ELSE IF ~PathExists(r.scratch, r.tmp, r.path)
             THEN [s1 EXCEPT !.status = HTTP_NOT_FOUND, !.local_path = r.path,
                             !.scratch = r.scratch, !.tmp = r.tmp]
        \* open(local_path, 'rb') of a directory
        ELSE IF IsDir(r.path.name)
             THEN [s1 EXCEPT !.status = HTTP_ERROR, !.local_path = r.path,
                             !.scratch = r.scratch, !.tmp = r.tmp]
        ELSE [s1 EXCEPT !.status = HTTP_OK,
                        !.body = ReadPath(st, r.scratch, r.path),
                        !.content_type = <<"application/vnd.openxmlformats-officedocument.wordprocessingml.document",
                                           "application/json">>,
                        !.disposition = "attachment; filename=\"" \o filename \o "\"",
                        !.local_path = r.path,
                        !.scratch = c.scratch, !.tmp = c.tmp,
                        !.store = delete_document(storage, st, filename, FALSE).store]

\* serve_document(filename): the status and body it sends and the state it leaves
serve_document(a, mgr, tmp, sc, st, url_name, fresh) ==
    LET filename == basename(unquote(url_name))
        storage == get_storage_adapter(a, fresh)
        m == get_document_manager(storage, mgr, tmp, fresh)
        s0 == [status |-> 0, body |-> 0, content_type |-> <<>>, disposition |-> "",
               adapter |-> a, manager |-> mgr, tmp |-> tmp, scratch |-> sc, store |-> st,
               filename |-> filename, local_path |-> NoPath, passed |-> {}]
        s1 == [s0 EXCEPT !.adapter = storage, !.manager = m.manager, !.tmp = m.tmp,
                         !.passed = {filename}]
        r == get_local_path(storage, st, sc, m.tmp, filename, FALSE)
        c == cleanup_temp(r.scratch, r.tmp, filename)
    IN  IF storage.err # "" THEN [s0 EXCEPT !.status = HTTP_ERROR]
        ELSE IF ~document_exists(storage, st, filename) THEN [s1 EXCEPT !.status = HTTP_NOT_FOUND]
        ELSE IF r.err = "FileNotFoundError" THEN [s1 EXCEPT !.status = HTTP_NOT_FOUND]
        ELSE IF r.err # "" THEN [s1 EXCEPT !.status = HTTP_ERROR]
        ELSE IF ~PathExists(r.scratch, r.tmp, r.path)
             THEN [s1 EXCEPT !.status = HTTP_NOT_FOUND, !.local_path = r.path,
                             !.scratch = r.scratch, !.tmp = r.tmp]
        \* open(local_path, 'rb') of a directory
        ELSE IF IsDir(r.path.name)
             THEN [s1 EXCEPT !.status = HTTP_ERROR, !.local_path = r.path,
                             !.scratch = r.scratch, !.tmp = r.tmp]
        ELSE [s1 EXCEPT !.status = HTTP_OK,
                        !.body = ReadPath(st, r.scratch, r.path),
                        \* line 515, then send_cors_headers (line 131)
                        !.content_type = <<"application/vnd.openxmlformats-officedocument.wordprocessingml.document",
                                           "application/json">>,
                        !.disposition = "attachment; filename=\"" \o filename \o "\"",
                        !.local_path = r.path,
                        !.scratch = c.scratch, !.tmp = c.tmp]

(***************************************************************************)
(* MCPHTTPHandler.do_POST, path /mcp/stream                                *)
(***************************************************************************)
HTTP_BAD_REQUEST == 400

\* request bodies: utf8 says whether the bytes read from the socket decode as
\* UTF-8 (a lone byte 0xFF does not), text is the decoded text
PostBodies ==
    [ utf8 : {FALSE}, text : {""} ]
    \cup
    [ utf8 : {TRUE},
      text : { "", "{", "[1]", "null", "{}",
               "{\"method\":\"initialize\"}",
               "{\"method\":\"tools/list\"}",
               "{\"method\":\"resources/list\"}",
               "{\"method\":\"tools/call\",\"params\":[]}",
               "{\"method\":\"tools/call\",\"params\":{}}" } ]

NoBody == [utf8 |-> TRUE, text |-> "<none>"]

\* json.loads over the texts above: the type of the value, its 'method' and the
\* type of its 'params' ("" where the key is absent); err is the exception raised
json_loads(text) ==
    CASE text \in {"", "{"} -> [err |-> "JSONDecodeError", type |-> "", method |-> "", params |-> ""]
      [] text = "[1]" -> [err |-> "", type |-> "list", method |-> "", params |-> ""]
      [] text = "null" -> [err |-> "", type |-> "NoneType", method |-> "", params |-> ""]
      [] text = "{}" -> [err |-> "", type |-> "dict", method |-> "", params |-> ""]
      [] text = "{\"method\":\"initialize\"}"
           -> [err |-> "", type |-> "dict", method |-> "initialize", params |-> ""]
      [] text = "{\"method\":\"tools/list\"}"
           -> [err |-> "", type |-> "dict", method |-> "tools/list", params |-> ""]
      [] text = "{\"method\":\"resources/list\"}"
           -> [err |-> "", type |-> "dict", method |-> "resources/list", params |-> ""]
      [] text = "{\"method\":\"tools/call\",\"params\":[]}"
           -> [err |-> "", type |-> "dict", method |-> "tools/call", params |-> "list"]
      [] text = "{\"method\":\"tools/call\",\"params\":{}}"
           -> [err |-> "", type |-> "dict", method |-> "tools/call", params |-> "dict"]

\* handle_mcp_request for a request that names no operation: raised is the
\* exception that leaves it, code the JSON-RPC error code (0: a result)
handle_mcp_request(request) ==
    \* lines 213-215: request.get(...) before the try block
    IF request.type # "dict" THEN [raised |-> "AttributeError", code |-> 0]
    ELSE IF request.method = "initialize" THEN [raised |-> "", code |-> 0]
    ELSE IF request.method = "tools/list" THEN [raised |-> "", code |-> 0]
    ELSE IF request.method = "tools/call"
         \* line 252: params.get('name') inside the try block
         THEN IF request.params \notin {"", "dict"} THEN [raised |-> "", code |-> INTERNAL_ERROR]
              \* no 'name': tool_name is None, which is not registered
              ELSE [raised |-> "", code |-> METHOD_NOT_FOUND]
    ELSE [raised |-> "", code |-> METHOD_NOT_FOUND]

\* do_POST for /mcp/stream, lines 192-207: responses is the number of HTTP
\* responses written, err the exception that leaves do_POST
do_POST(body) ==
    \* line 194: .decode('utf-8') stands before the try block
    IF ~body.utf8
    THEN [responses |-> 0, status |-> 0, code |-> 0, err |-> "UnicodeDecodeError"]
    ELSE LET request == json_loads(body.text)
             response == handle_mcp_request(request)
         IN  IF request.err # ""
             THEN [responses |-> 1, status |-> HTTP_BAD_REQUEST, code |-> 0, err |-> ""]
             ELSE IF response.raised # ""
                  THEN [responses |-> 1, status |-> HTTP_ERROR, code |-> 0, err |-> ""]
                  ELSE [responses |-> 1, status |-> HTTP_OK, code |-> response.code, err |-> ""]

(***************************************************************************)
(* MCPHTTPHandler.handle_template_upload: POST /upload-template            *)
(***************************************************************************)
\* what the request carries: no body (Content-Length 0), the file as the raw
\* body, a multipart form with the field "file", a form without it
TemplateUploads == {"empty", "raw", "form", "form_without_file"}

\* where writing the template fails: open(template_path, 'wb') copies no
\* mode or times
TemplateFaults == UploadFaults \ {"stat"}

\* handle_template_upload: the file, of contents b, is written to the template
\* path; st is the backend's directory, which is the template's when
\* self.template_dir says so (self: the storage adapter of the process, or
\* NoAdapter with template_dir set).  Every exception is answered with
\* send_error(500).
handle_template_upload(self, st, upload, b, fault) ==
    IF upload \in {"empty", "form_without_file"}
    THEN [responses |-> 1, status |-> HTTP_BAD_REQUEST, store |-> st]
    ELSE IF fault = "open"
    THEN [responses |-> 1, status |-> HTTP_ERROR, store |-> st]
    ELSE IF fault = "write"
    THEN [responses |-> 1, status |-> HTTP_ERROR,
          store |-> IF self.template_dir = "here"
                    THEN WriteFile(st, TEMPLATE_FILENAME, TruncatedFile) ELSE st]
    ELSE [responses |-> 1, status |-> HTTP_OK,
          store |-> IF self.template_dir = "here"
                    THEN WriteFile(st, TEMPLATE_FILENAME, b) ELSE st]

(***************************************************************************)
(* MCPHTTPHandler._get_tool_schema                                         *)
(***************************************************************************)
\* annotations of a parameter, written as Python prints them; "empty" is
\* inspect.Parameter.empty (no annotation)
Annotations ==
    { "str", "int", "float", "bool", "list", "dict", "NoneType", "bytes", "empty",
      "list[str]", "typing.List[str]", "typing.Optional[str]", "typing.Optional[int]",
      "typing.Optional[typing.List[str]]" }

\* lines 404-410: Optional[X] is taken as X
unwrap_optional(param_type) ==
    IF Len(param_type) > 16 /\ SubSeq(param_type, 1, 16) = "typing.Optional["
    THEN SubSeq(param_type, 17, Len(param_type) - 1)
    ELSE param_type

\* lines 415-429: the JSON schema type of a Python type
json_type(param_type) ==
    IF param_type \in {"str", "empty", "NoneType"} THEN "string"
    ELSE IF param_type = "int" THEN "integer"
    ELSE IF param_type = "float" THEN "number"
    ELSE IF param_type = "bool" THEN "boolean"
    ELSE IF param_type = "list" \/ Contains(param_type, "list") THEN "array"
    ELSE IF param_type = "dict" THEN "object"
    ELSE "string"

\* (mutant) the property schema with the position enum given to string parameters only
prop_schema_typed_enum(param) ==
    LET type == json_type(unwrap_optional(param.annotation))
    IN  [ type  |-> type,
          items |-> IF type = "array" THEN "string" ELSE "",
          enum  |-> IF param.name = "position" /\ type = "string" THEN <<"before", "after">>
                    ELSE IF param.name = "bullet_type" THEN <<"bullet", "number">>
                    ELSE <<>> ]

\* lines 397-452: the type, items and enum of one parameter's schema; items = ""
\* and enum = <<>> stand for keys the schema does not have.  The description
\* text (lines 434, 437, 439-449) is left out.
prop_schema(param) ==
    LET type == json_type(unwrap_optional(param.annotation))
    IN  [ type  |-> type,
          items |-> IF type = "array" THEN "string" ELSE "",
          enum  |-> IF param.name = "position" THEN <<"before", "after">>
                    ELSE IF param.name = "bullet_type" THEN <<"bullet", "number">>
                    ELSE <<>> ]

\* the elements of a sequence that satisfy a test, in order
RECURSIVE required_of(_)
required_of(sig) ==
    IF sig = <<>> THEN <<>>
    ELSE (IF Head(sig).name # "self" /\ ~Head(sig).has_default THEN <<Head(sig).name>> ELSE <<>>)
         \o required_of(Tail(sig))

\* _get_tool_schema(tool_func), sig being the parameters of tool_func in order
get_tool_schema(sig) ==
    LET params == {sig[i] : i \in 1..Len(sig)}
        names == {p.name : p \in params} \ {"self"}
        required == required_of(sig)
    IN  [ type |-> "object",
          properties |-> [n \in names |-> prop_schema(CHOOSE p \in params : p.name = n)],
          required |-> required,
          keys |-> {"type", "properties"} \cup (IF required # <<>> THEN {"required"} ELSE {}) ]

\* parameters of the registered operations and parameters that resemble them
ParamNames == {"self", "filename", "position", "bullet_type", "list_items", "position_index"}

Params == [name : ParamNames, annotation : Annotations, has_default : BOOLEAN]

\* signatures of one parameter, and of two with the target document first
Signatures ==
    {<<p>> : p \in Params}
    \cup { <<p, q>> : p \in [name : {"filename"}, annotation : {"str"}, has_default : {FALSE}],
                      q \in {x \in Params : x.name \notin {"filename", "self"}} }

NoSchema == [type |-> "", properties |-> <<>>, required |-> <<>>, keys |-> {}]

(***************************************************************************)
(* State machine                                                           *)
(***************************************************************************)
\* the record of a call: its inputs, and what it returned
NoCall ==
    [ op |-> "none", tool |-> "", name |-> "", has_name |-> FALSE,
      source |-> "", has_source |-> FALSE, flag |-> FALSE, outcome |-> "",
      bytes |-> 0, fault |-> FALSE, env |-> NoEnv,
      err |-> "", code |-> 0, ret |-> FALSE, path |-> NoPath, source_path |-> NoPath,
      body |-> 0, invoked |-> FALSE, saved |-> FALSE, published |-> "", locator |-> "",
      calls |-> 0, content_type |-> <<>>, disposition |-> "",
      message |-> "", status |-> 0, path_existed |-> FALSE, path_bytes |-> 0,
      sig |-> <<>>, schema |-> NoSchema, request_body |-> NoBody, responses |-> 0,
      passed |-> {} ]

\* the request-handling threads: HTTPServer handles every request on the one
\* thread of serve_forever, so only the first is ever busy
Handlers == {1, 2}

\* a request's progress record without the process state it was computed in
local_state(s) ==
    [s EXCEPT !.adapter = NoAdapter, !.manager = FALSE, !.tmp = FALSE,
              !.scratch = EmptyDir, !.store = EmptyDir]

\* a thread that handles no request.  pc is the step the request stands before;
\* outcome and bytes are what the operation did; expected is the contents of
\* the request's scratch file as its own last step left it; at_accept is the
\* scratch directory and the backend as they were when the request came in.
IdleHandler ==
    [ pc |-> "idle", kind |-> "", tool |-> "", has_name |-> FALSE, name |-> "",
      has_source |-> FALSE, source |-> "", dest |-> NoPath, outcome |-> "",
      bytes |-> 0,
      s |-> local_state(start_call(NoAdapter, FALSE, FALSE, EmptyDir, EmptyDir)),
      expected |-> 0, at_accept |-> [scratch |-> EmptyDir, store |-> EmptyDir] ]

\* the process after import: no adapter, no manager, an empty backend
Init ==
    /\ storage_adapter = NoAdapter
    /\ store = EmptyDir
    /\ manager = FALSE
    /\ temp_dir_exists = FALSE
    /\ scratch = EmptyDir
    /\ live = EmptyDir
    /\ last = NoCall
    /\ handlers = [h \in Handlers |-> IdleHandler]

\* environments a later call may find the process in: one in which the object
\* store would be selected and one in which the local filesystem would
RetryEnvs ==
    { [NoEnv EXCEPT !.STORAGE_TYPE = "s3", !.S3_BUCKET_NAME = "bkt",
                    !.AWS_ACCESS_KEY_ID = "id", !.AWS_SECRET_ACCESS_KEY = "key"],
      [NoEnv EXCEPT !.STORAGE_TYPE = "local"] }

\* where a process can have found its template directory
TemplateDirs == {"here", "elsewhere"}

\* instance c can be constructed in a process that has found its template
\* directory at dir: the directory is read from the environment when the
\* process starts
Agrees(dir, c) == c.err # "" \/ c.template_dir = dir

\* the environments, and the instances StorageAdapter() produces, that agree
\* with each place of the template directory
EnvsAt == [dir \in TemplateDirs |-> {e \in Envs : Agrees(dir, StorageAdapterInit(e))}]

ConstructionsAt == [dir \in TemplateDirs |-> {c \in Constructions : Agrees(dir, c)}]

\* the environment at the time of a call: any at the first use of the adapter
\* that agrees with what an earlier template upload found
EnvsFor(a) ==
    IF a.storage_type # "none" THEN RetryEnvs
    ELSE IF a.template_dir = "" THEN Envs
    ELSE EnvsAt[a.template_dir]

\* the instance StorageAdapter() would construct at the time of a call: any at
\* the first use of the adapter that agrees with what an earlier template upload
\* found, later the one of the local filesystem
FreshFor(a) ==
    IF a.storage_type # "none" THEN {StorageAdapterInit([NoEnv EXCEPT !.STORAGE_TYPE = "local"])}
    ELSE IF a.template_dir = "" THEN Constructions
    ELSE ConstructionsAt[a.template_dir]

\* get_storage_adapter()
GetStorageAdapter ==
    /\ last.op = "none"
    /\ UNCHANGED handlers
    /\ \E e \in EnvsFor(storage_adapter) :
        \E a \in {get_storage_adapter(storage_adapter, StorageAdapterInit(e))} :
            /\ storage_adapter' = IF a.err # "" THEN storage_adapter ELSE a
            /\ last' = [NoCall EXCEPT !.op = "get_storage_adapter", !.env = e, !.err = a.err,
                                      \* ret: the instance was there before the call
                                      !.ret = (storage_adapter.storage_type # "none")]
            /\ UNCHANGED <<store, manager, temp_dir_exists, scratch, live>>

\* get_document_manager()
GetDocumentManager ==
    /\ last.op = "none"
    /\ UNCHANGED handlers
    /\ \E e \in EnvsFor(storage_adapter) :
        \E m \in {get_document_manager(storage_adapter, manager, temp_dir_exists, StorageAdapterInit(e))} :
            /\ storage_adapter' = m.adapter
            /\ manager' = m.manager
            /\ temp_dir_exists' = m.tmp
            /\ last' = [NoCall EXCEPT !.op = "get_document_manager", !.env = e, !.err = m.err]
            /\ UNCHANGED <<store, scratch, live>>

\* storage.document_exists(filename)
DocumentExists ==
    /\ last.op = "none"
    /\ UNCHANGED handlers
    /\ storage_adapter.storage_type # "none"
    /\ \E filename \in Names :
        /\ last' = [NoCall EXCEPT !.op = "document_exists", !.name = filename,
                                  !.ret = document_exists(storage_adapter, store, filename)]
        /\ UNCHANGED <<storage_adapter, store, manager, temp_dir_exists, scratch, live>>

\* storage.upload_document(local_path, filename), the local file holding b
UploadDocument ==
    /\ last.op = "none"
    /\ UNCHANGED handlers
    /\ storage_adapter.storage_type # "none"
    /\ \E filename \in Names, b \in Bytes :
      \E fault \in upload_faults(storage_adapter, store, filename) :
        \E u \in {upload_document(storage_adapter, store, b, filename, fault)} :
            /\ store' = u.store
            /\ live' = WriteFile(live, filename, IF u.err = "" THEN b ELSE 0)
            /\ last' = [NoCall EXCEPT !.op = "upload_document", !.name = filename,
                                      !.bytes = b, !.fault = (fault # ""), !.err = u.err,
                                      !.locator = u.locator,
                                      !.body = ReadPath(store, scratch, StorePath(filename))]
            /\ UNCHANGED <<storage_adapter, manager, temp_dir_exists, scratch>>

\* storage.download_document(filename, local_path), local_path = temp_dir/dest
DownloadDocument ==
    /\ last.op = "none"
    /\ UNCHANGED handlers
    /\ storage_adapter.storage_type # "none"
    /\ manager
    /\ \E filename \in Names, dest \in Names :
        \E d \in {download_document(storage_adapter, store, scratch, temp_dir_exists,
                                   filename, TempPath(dest))} :
            /\ scratch' = d.scratch
            /\ last' = [NoCall EXCEPT !.op = "download_document", !.name = filename,
                                      !.source = dest, !.err = d.err, !.path = d.path,
                                      !.body = ReadPath(store, d.scratch, d.path)]
            /\ UNCHANGED <<storage_adapter, store, manager, temp_dir_exists, live>>

\* storage.delete_document(filename)
DeleteDocument ==
    /\ last.op = "none"
    /\ UNCHANGED handlers
    /\ storage_adapter.storage_type # "none"
    /\ \E filename \in Names, fault \in BOOLEAN :
        \E d \in {delete_document(storage_adapter, store, filename, fault)} :
            /\ store' = d.store
            /\ live' = IF d.err = "" THEN RemoveFile(live, filename) ELSE live
            /\ last' = [NoCall EXCEPT !.op = "delete_document", !.name = filename,
                                      !.fault = fault, !.err = d.err, !.ret = d.ret]
            /\ UNCHANGED <<storage_adapter, manager, temp_dir_exists, scratch>>

\* storage.get_document_url(filename)
GetDocumentUrl ==
    /\ last.op = "none"
    /\ UNCHANGED handlers
    /\ storage_adapter.storage_type # "none"
    /\ \E filename \in Names, fault \in BOOLEAN :
        /\ last' = [NoCall EXCEPT !.op = "get_document_url", !.name = filename,
                                  !.fault = fault,
                                  !.locator = get_document_url(storage_adapter, filename, fault)]
        /\ UNCHANGED <<storage_adapter, store, manager, temp_dir_exists, scratch, live>>

\* manager.get_local_path(filename, create_if_missing)
GetLocalPath ==
    /\ last.op = "none"
    /\ UNCHANGED handlers
    /\ manager
    /\ \E filename \in Names, create_if_missing \in BOOLEAN :
        \E r \in {get_local_path(storage_adapter, store, scratch, temp_dir_exists,
                                filename, create_if_missing)} :
            /\ scratch' = r.scratch
            /\ temp_dir_exists' = r.tmp
            /\ last' = [NoCall EXCEPT !.op = "get_local_path", !.name = filename,
                                      !.flag = create_if_missing, !.err = r.err,
                                      !.path = r.path,
                                      !.body = ReadPath(store, r.scratch, r.path)]
            /\ UNCHANGED <<storage_adapter, store, manager, live>>

\* manager.cleanup_temp(filename), and manager.cleanup_temp() as filename = ""
CleanupTemp ==
    /\ last.op = "none"
    /\ UNCHANGED handlers
    /\ manager
    /\ \E filename \in Names \cup {""} :
        \E c \in {cleanup_temp(scratch, temp_dir_exists, filename)} :
            /\ scratch' = c.scratch
            /\ temp_dir_exists' = c.tmp
            /\ last' = [NoCall EXCEPT !.op = "cleanup_temp", !.name = filename,
                                      !.err = c.err,
                                      \* ret: the call removed something
                                      !.ret = (c.scratch # scratch \/ c.tmp # temp_dir_exists)]
            /\ UNCHANGED <<storage_adapter, store, manager, live>>

\* whether a tools/call with these arguments gets as far as calling the operation
reaches_invoke(a, mgr, tmp, sc, st, tool_name, has_filename, filename, has_source, source_filename, fresh) ==
    tools_call(a, mgr, tmp, sc, st, tool_name, has_filename, filename, has_source,
               source_filename, NoPath, "returned", 0, "", fresh).invoked

\* POST /mcp/stream with method tools/call, the filename arguments drawn from
\* names.  What the operation does and whether the backend fails are drawn only
\* for a call that reaches the operation; the operations called take no
\* destination.
ToolsCallOf(names) ==
    /\ last.op = "none"
    /\ UNCHANGED handlers
    /\ \E fresh \in FreshFor(storage_adapter), tool_name \in CallTools,
          has_filename \in BOOLEAN, has_source \in BOOLEAN :
        \E filename \in (IF has_filename THEN names ELSE {""}),
           source_filename \in (IF has_source THEN names ELSE {""}) :
          \E inv \in {reaches_invoke(storage_adapter, manager, temp_dir_exists, scratch,
                                    store, tool_name, has_filename, filename, has_source,
                                    source_filename, fresh)} :
              \E outcome \in (IF inv THEN call_outcomes(tool_name, has_filename, has_source)
                              ELSE {"returned"}) :
                \E b \in bytes_of(tool_name, outcome),
                   fault \in (IF inv /\ has_filename /\ outcome # "raised"
                              THEN upload_faults(
                                       get_document_manager(storage_adapter, manager,
                                           temp_dir_exists, fresh).adapter,
                                       store, publish_name(filename))
                              ELSE {""}) :
                  \E r \in {tools_call(storage_adapter, manager, temp_dir_exists, scratch,
                                      store, tool_name, has_filename, filename, has_source,
                                      source_filename, NoPath, outcome, b, fault, fresh)} :
                      /\ storage_adapter' = r.adapter
                      /\ manager' = r.manager
                      /\ temp_dir_exists' = r.tmp
                      /\ scratch' = r.scratch
                      /\ store' = r.store
                      /\ live' = IF r.published # ""
                                 THEN WriteFile(live, r.published, r.published_bytes)
                                 ELSE live
                      /\ last' = [NoCall EXCEPT
                                    !.op = "tools/call", !.tool = tool_name,
                                    !.name = filename, !.has_name = has_filename,
                                    !.source = source_filename, !.has_source = has_source,
                                    !.outcome = outcome, !.bytes = b, !.fault = (fault # ""),
                                    !.code = r.code, !.err = r.raised,
                                    !.message = r.message, !.status = r.status,
                                    !.path = r.local_path,
                                    !.source_path = r.source_path,
                                    !.invoked = r.invoked, !.saved = r.saved,
                                    !.path_existed = r.path_existed,
                                    !.path_bytes = r.path_bytes,
                                    !.published = r.published, !.locator = r.locator,
                                    !.calls = r.calls,
                                    \* do_POST, lines 199-207: send_response(200) or send_error(500)
                                    !.responses = 1, !.passed = r.passed]

ToolsCall == ToolsCallOf(ClientNames)

\* filename arguments with directory components
PathNames == {"report.docx", "../report.docx", "a/report.docx", ".."}

ToolsCallPath == ToolsCallOf(PathNames)

\* GET /documents/{url_name}
UrlNames == {"report.docx", "report", "report%2Edocx"}

\* request paths with directory components, plain and percent-encoded
UrlPathNames == {"report.docx", "../report.docx", "a%2Freport.docx", "%2E%2E"}

ServeDocumentOf(url_names) ==
    /\ last.op = "none"
    /\ UNCHANGED handlers
    /\ \E url_name \in url_names, fresh \in FreshFor(storage_adapter) :
        \E r \in {serve_document(storage_adapter, manager, temp_dir_exists, scratch, store,
                                url_name, fresh)} :
            /\ storage_adapter' = r.adapter
            /\ manager' = r.manager
            /\ temp_dir_exists' = r.tmp
            /\ scratch' = r.scratch
            /\ store' = r.store
            /\ last' = [NoCall EXCEPT !.op = "GET /documents", !.name = url_name,
                                      !.code = r.status, !.body = r.body,
                                      !.path = r.local_path,
                                      !.content_type = r.content_type,
                                      !.disposition = r.disposition,
                                      !.passed = r.passed]
            /\ UNCHANGED live

ServeDocument == ServeDocumentOf(UrlNames)

ServeDocumentPath == ServeDocumentOf(UrlPathNames)

\* POST /mcp/stream with a body that is no tools/call of a named operation
DoPost ==
    /\ last.op = "none"
    /\ UNCHANGED handlers
    /\ \E body \in PostBodies :
        \E r \in {do_POST(body)} :
            last' = [NoCall EXCEPT !.op = "POST /mcp/stream", !.request_body = body,
                                   !.responses = r.responses, !.status = r.status,
                                   !.code = r.code, !.err = r.err]
    /\ UNCHANGED <<storage_adapter, store, manager, temp_dir_exists, scratch, live>>

\* POST /upload-template.  The handler writes at the template path whether or
\* not the process has its storage adapter; in a process that has none, the
\* first upload finds the template directory to be the directory the adapter
\* will store in, or another one.
UploadTemplate ==
    /\ last.op = "none"
    /\ UNCHANGED handlers
    /\ \E upload \in TemplateUploads,
          dir \in (IF storage_adapter.template_dir = "" THEN TemplateDirs
                   ELSE {storage_adapter.template_dir}) :
        \E b \in (IF upload \in {"raw", "form"} THEN Bytes ELSE {0}),
           fault \in (IF upload \in {"raw", "form"} THEN TemplateFaults ELSE {""}) :
          \E r \in {handle_template_upload([storage_adapter EXCEPT !.template_dir = dir],
                                           store, upload, b, fault)} :
              /\ store' = r.store
              /\ storage_adapter' = [storage_adapter EXCEPT !.template_dir = dir]
              /\ last' = [NoCall EXCEPT !.op = "POST /upload-template", !.name = upload,
                                        !.bytes = b, !.fault = (fault # ""),
                                        !.status = r.status, !.responses = r.responses]
    /\ UNCHANGED <<manager, temp_dir_exists, scratch, live>>

\* a wrapped operation is called: with_storage_sync(tool_func)(**kwargs)
WrappedTools == {"create_document", "get_document_text", "set_table_cell_padding"}

WithStorageSync ==
    /\ last.op = "none"
    /\ UNCHANGED handlers
    /\ \E fresh \in FreshFor(storage_adapter), tool_name \in WrappedTools,
          has_filename \in BOOLEAN, has_source \in BOOLEAN :
        \E filename \in (IF has_filename THEN Names ELSE {""}),
           source_filename \in (IF has_source THEN Names ELSE {""}),
           outcome \in outcomes_of(tool_name, has_filename) :
          \E b \in bytes_of(tool_name, outcome),
             fault \in (IF outcome # "raised" /\ (has_filename \/ has_source)
                        THEN UploadFaults ELSE {""}) :
            \E w \in {with_storage_sync(storage_adapter, manager, temp_dir_exists, scratch,
                                        store, tool_name, has_filename, filename, has_source,
                                        source_filename, outcome, b, fault, fresh)} :
                /\ storage_adapter' = w.adapter
                /\ manager' = w.manager
                /\ temp_dir_exists' = w.tmp
                /\ scratch' = w.scratch
                /\ store' = w.store
                /\ live' = IF w.published # ""
                           THEN WriteFile(live, w.published, w.published_bytes)
                           ELSE live
                /\ last' = [NoCall EXCEPT
                              !.op = "with_storage_sync", !.tool = tool_name,
                              !.name = filename, !.has_name = has_filename,
                              !.source = source_filename, !.has_source = has_source,
                              !.outcome = outcome, !.bytes = b, !.fault = (fault # ""),
                              !.err = w.raised, !.message = w.result,
                              !.path = w.local_path, !.invoked = w.invoked,
                              !.saved = w.saved, !.published = w.published,
                              !.locator = w.locator]

\* the call returns to its caller (the response has been sent): the process is
\* ready for the next call
Return ==
    /\ last.op # "none"
    /\ UNCHANGED handlers
    /\ last' = NoCall
    /\ UNCHANGED <<storage_adapter, store, manager, temp_dir_exists, scratch, live>>

\* the storage adapter, the document manager and the server's document requests
\* called one after another (the template upload is followed in SpecServer)
Next ==
    \/ GetStorageAdapter
    \/ GetDocumentManager
    \/ DocumentExists
    \/ UploadDocument
    \/ DownloadDocument
    \/ DeleteDocument
    \/ GetDocumentUrl
    \/ GetLocalPath
    \/ CleanupTemp
    \/ ToolsCall
    \/ ServeDocument
    \/ DoPost
    \/ Return

Spec == Init /\ [][Next]_vars

\* the HTTP server alone: requests arrive one at a time and each runs to its response
NextServer ==
    \/ ToolsCall
    \/ ServeDocument
    \/ DoPost
    \/ UploadTemplate
    \/ Return

SpecServer == Init /\ [][NextServer]_vars

\* the HTTP server called with names that carry directory components
NextPaths ==
    \/ ToolsCallPath
    \/ ServeDocumentPath
    \/ Return

SpecPaths == Init /\ [][NextPaths]_vars

\* self._get_tool_schema(tool_func), as tools/list calls it for each operation
GetToolSchema ==
    /\ last.op = "none"
    /\ UNCHANGED handlers
    /\ \E sig \in Signatures :
        last' = [NoCall EXCEPT !.op = "_get_tool_schema", !.sig = sig,
                               !.schema = get_tool_schema(sig)]
    /\ UNCHANGED <<storage_adapter, store, manager, temp_dir_exists, scratch, live>>

\* schema inference alone: it reads a signature and touches no state
NextSchema ==
    \/ GetToolSchema
    \/ Return

SpecSchema == Init /\ [][NextSchema]_vars

\* the storage adapter and the document manager called directly, without the server
NextApi ==
    \/ GetStorageAdapter
    \/ GetDocumentManager
    \/ DocumentExists
    \/ UploadDocument
    \/ DownloadDocument
    \/ DeleteDocument
    \/ GetDocumentUrl
    \/ GetLocalPath
    \/ CleanupTemp
    \/ Return

SpecApi == Init /\ [][NextApi]_vars

\* operations wrapped by with_storage_sync, called one after another
NextWrapper ==
    \/ WithStorageSync
    \/ Return

SpecWrapper == Init /\ [][NextWrapper]_vars

(***************************************************************************)
(* The server handling its requests step by step                           *)
(***************************************************************************)
\* names and operations of the requests followed step by step
StepNames == {"report.docx", "notes.docx"}

StepTools == {"create_document", "get_document_text", "copy_document",
              "set_template_from_file", "clear_template", "does_not_exist"}

\* the environments the server is followed in step by step: each backend with
\* its settings in order, with and without the template in its directory, and
\* the volume that cannot be created
StepEnvs ==
    { e \in Envs :
        /\ e.BASE_URL = Unset
        /\ e.STORAGE_TYPE \in {"s3", "disk", "local"}
        /\ e.makedirs_disk \in {"ok", "OSError"}
        /\ e.STORAGE_TYPE = "s3" =>
              /\ e.S3_BUCKET_NAME # Unset /\ e.AWS_ACCESS_KEY_ID # Unset
              /\ e.AWS_SECRET_ACCESS_KEY # Unset /\ e.head_bucket = "ok"
              /\ e.makedirs_disk = "ok" }

\* the instance StorageAdapter() would construct when a request comes in
FreshForStep(a) ==
    IF a.storage_type = "none" THEN {StorageAdapterInit(e) : e \in StepEnvs}
    ELSE FreshFor(a)

\* (mutant) a server that starts a thread for every request (ThreadingHTTPServer)
can_accept_threading(hs) == \E h \in DOMAIN hs : hs[h].pc = "idle"

\* run_http_server: HTTPServer.serve_forever takes the next request up only
\* when the handler of the last one has returned
can_accept(hs) == \A h \in DOMAIN hs : hs[h].pc = "idle"

\* the thread that takes the next request up
free_thread(hs) ==
    CHOOSE h \in DOMAIN hs :
        hs[h].pc = "idle" /\ \A g \in DOMAIN hs : hs[g].pc = "idle" => h <= g

\* the progress record of thread h in the process state of the moment
progress(h) ==
    [handlers[h].s EXCEPT !.adapter = storage_adapter, !.manager = manager,
                          !.tmp = temp_dir_exists, !.scratch = scratch, !.store = store]

\* the handler has returned or raised
done(s) == s.code # 0 \/ s.raised # ""

\* lines 255-269: the operation is looked up, the manager and the adapter obtained
dispatch(a, mgr, tmp, sc, st, tool_name, fresh) ==
    LET m == get_document_manager(a, mgr, tmp, fresh)
    IN  IF tool_name \notin TOOL_REGISTRY
        THEN [start_call(a, mgr, tmp, sc, st) EXCEPT !.code = METHOD_NOT_FOUND]
        ELSE IF m.err # "" THEN [start_call(a, mgr, tmp, sc, st) EXCEPT !.raised = m.err]
        ELSE start_call(m.adapter, m.manager, m.tmp, sc, st)

\* thread h has taken a step that leaves the process as s says and the request
\* before step pc; rec is the thread's record
Commit(h, s, pc, rec) ==
    /\ storage_adapter' = s.adapter
    /\ manager' = s.manager
    /\ temp_dir_exists' = s.tmp
    /\ scratch' = s.scratch
    /\ store' = s.store
    /\ live' = IF s.published # "" /\ handlers[h].s.published = ""
               THEN WriteFile(live, s.published, s.published_bytes)
               ELSE live
    /\ handlers' = [handlers EXCEPT ![h] =
                      [rec EXCEPT !.pc = pc,
                                  !.s = local_state(IF pc = "respond"
                                                    THEN do_POST_status(except_Exception(s))
                                                    ELSE s)]]
    /\ UNCHANGED last

\* a tools/call request is taken up: lines 251-269
AcceptCall ==
    /\ last.op = "none"
    /\ can_accept(handlers)
    /\ \E fresh \in FreshForStep(storage_adapter), tool_name \in StepTools,
          has_filename \in BOOLEAN, has_source \in BOOLEAN :
        \E filename \in (IF has_filename THEN StepNames ELSE {""}),
           source_filename \in (IF has_source THEN StepNames ELSE {""}),
           dest \in (IF tool_name = "copy_document" /\ has_source /\ ~has_filename
                     THEN DestPaths ELSE {NoPath}) :
          \E s \in {dispatch(storage_adapter, manager, temp_dir_exists, scratch, store,
                             tool_name, fresh)} :
              Commit(free_thread(handlers), s, IF done(s) THEN "respond" ELSE "resolve",
                     [IdleHandler EXCEPT !.kind = "tools/call", !.tool = tool_name,
                                         !.has_name = has_filename, !.name = filename,
                                         !.has_source = has_source,
                                         !.source = source_filename, !.dest = dest,
                                         !.at_accept = [scratch |-> scratch, store |-> store]])

\* lines 271-312: the filename and source_filename arguments are resolved
Resolve ==
    \E h \in Handlers :
        /\ handlers[h].pc = "resolve"
        /\ \E s1 \in {resolve_primary(progress(h), handlers[h].tool, handlers[h].has_name,
                                      handlers[h].name)} :
            \E s2 \in {IF done(s1) THEN s1
                       ELSE resolve_source(s1, handlers[h].has_source, handlers[h].source)} :
                Commit(h, s2, IF done(s2) THEN "respond" ELSE "invoke",
                       [handlers[h] EXCEPT
                          !.expected = ReadPath(s2.store, s2.scratch, s2.local_path)])

\* lines 315-319: the operation is called
Invoke ==
    \E h \in Handlers :
        /\ handlers[h].pc = "invoke"
        /\ \E outcome \in call_outcomes(handlers[h].tool, handlers[h].has_name,
                                      handlers[h].has_source) :
            \E b \in bytes_of(handlers[h].tool, outcome) :
              \E s1 \in {call_operation(progress(h), handlers[h].tool, handlers[h].has_name,
                                        handlers[h].dest, outcome, b)} :
                  Commit(h, s1, IF s1.raised # "" THEN "cleanup" ELSE "publish",
                         [handlers[h] EXCEPT
                            !.outcome = outcome, !.bytes = b,
                            !.expected = ReadPath(s1.store, s1.scratch, s1.local_path)])

\* lines 321-343: the scratch file is saved back
Publish ==
    \E h \in Handlers :
        /\ handlers[h].pc = "publish"
        /\ \E fault \in upload_faults(storage_adapter, store, publish_name(handlers[h].name)) :
            \E s1 \in {save_back(progress(h), handlers[h].name, fault)} :
                Commit(h, s1, "cleanup", handlers[h])

\* lines 346-349: the finally block
Cleanup ==
    \E h \in Handlers :
        /\ handlers[h].pc = "cleanup"
        /\ \E s1 \in {finally_cleanup(progress(h))} :
            Commit(h, s1, "respond", handlers[h])

\* a GET /documents/{url_name} request is taken up: lines 495-497
AcceptGet ==
    /\ last.op = "none"
    /\ can_accept(handlers)
    /\ \E fresh \in FreshForStep(storage_adapter), url_name \in StepNames :
        \E storage \in {get_storage_adapter(storage_adapter, fresh)} :
          \E m \in {get_document_manager(storage, manager, temp_dir_exists, fresh)} :
            \E s \in {IF storage.err # ""
                      THEN [start_call(storage_adapter, manager, temp_dir_exists, scratch, store)
                              EXCEPT !.status = HTTP_ERROR, !.code = HTTP_ERROR]
                      ELSE start_call(storage, m.manager, m.tmp, scratch, store)} :
                Commit(free_thread(handlers), s, IF done(s) THEN "respond" ELSE "serve_resolve",
                       [IdleHandler EXCEPT !.kind = "GET", !.name = url_name,
                                           !.at_accept = [scratch |-> scratch, store |-> store]])

\* lines 499-505: the document is looked up and fetched into the scratch directory
ServeResolve ==
    \E h \in Handlers :
        /\ handlers[h].pc = "serve_resolve"
        /\ \E s0 \in {progress(h)}, filename \in {basename(unquote(handlers[h].name))} :
            \E r \in {get_local_path(s0.adapter, s0.store, s0.scratch, s0.tmp, filename, FALSE)} :
              \E s1 \in {IF ~document_exists(s0.adapter, s0.store, filename)
                         THEN [s0 EXCEPT !.code = HTTP_NOT_FOUND]
                         ELSE IF r.err = "FileNotFoundError" THEN [s0 EXCEPT !.code = HTTP_NOT_FOUND]
                         ELSE IF r.err # "" THEN [s0 EXCEPT !.code = HTTP_ERROR]
                         ELSE [s0 EXCEPT !.local_path = r.path, !.scratch = r.scratch,
                                         !.tmp = r.tmp]} :
                  Commit(h, s1, IF done(s1) THEN "respond" ELSE "serve_read",
                         [handlers[h] EXCEPT
                            !.expected = ReadPath(s1.store, s1.scratch, s1.local_path)])

\* lines 507-521: the scratch file is read and sent
ServeRead ==
    \E h \in Handlers :
        /\ handlers[h].pc = "serve_read"
        /\ \E s0 \in {progress(h)} :
            \E s1 \in {IF ~PathExists(s0.scratch, s0.tmp, s0.local_path)
                       THEN [s0 EXCEPT !.code = HTTP_NOT_FOUND]
                       ELSE IF IsDir(s0.local_path.name) THEN [s0 EXCEPT !.code = HTTP_ERROR]
                       ELSE [s0 EXCEPT !.status = HTTP_OK,
                                       !.path_bytes = ReadPath(s0.store, s0.scratch, s0.local_path)]} :
                Commit(h, s1, IF done(s1) THEN "respond" ELSE "serve_cleanup", handlers[h])

\* lines 523-524: manager.cleanup_temp(filename)
ServeCleanup ==
    \E h \in Handlers :
        /\ handlers[h].pc = "serve_cleanup"
        /\ \E s0 \in {progress(h)} :
            \E c \in {cleanup_temp(s0.scratch, s0.tmp, basename(unquote(handlers[h].name)))} :
                Commit(h, [s0 EXCEPT !.scratch = c.scratch, !.tmp = c.tmp, !.code = HTTP_OK],
                       "respond", handlers[h])

\* the handler returns: the response has been written and the thread is free
Respond ==
    \E h \in Handlers :
        /\ handlers[h].pc = "respond"
        /\ handlers' = [handlers EXCEPT ![h] = IdleHandler]
        /\ UNCHANGED <<storage_adapter, store, manager, temp_dir_exists, scratch, live, last>>

NextSteps ==
    \/ AcceptCall
    \/ Resolve
    \/ Invoke
    \/ Publish
    \/ Cleanup
    \/ AcceptGet
    \/ ServeResolve
    \/ ServeRead
    \/ ServeCleanup
    \/ Respond

SpecSteps == Init /\ [][NextSteps]_vars

(***************************************************************************)
(* Properties                                                              *)
(***************************************************************************)
\* GET /documents/{url_name} answered in the state after the step
ServedNext(url_name) ==
    serve_document(storage_adapter', manager', temp_dir_exists', scratch', store',
                   url_name, storage_adapter')

\* C1: from a backend holding neither "report" nor "report.docx", a tools/call of
\* create_document with filename "report" whose operation succeeds leaves the
\* backend holding "report.docx"; a GET /documents/report.docx that follows
\* answers 200 with exactly those bytes; and the scratch directory then holds no
\* file named report.docx.
C1_CreateReportThenDownload ==
    [][ ( /\ last'.op = "tools/call"
          /\ last'.tool = "create_document"
          /\ last'.has_name /\ last'.name = "report" /\ ~last'.has_source
          /\ last'.saved /\ ~last'.fault
          /\ "report" \notin DOMAIN store /\ "report.docx" \notin DOMAIN store )
        => ( /\ "report.docx" \in DOMAIN store'
             /\ store'["report.docx"] = last'.bytes
             /\ ServedNext("report.docx").status = HTTP_OK
             /\ ServedNext("report.docx").body = last'.bytes
             /\ "report.docx" \notin DOMAIN ServedNext("report.docx").scratch ) ]_vars

\* C2: whenever a tools/call resolved its primary document name to a scratch
\* path, the file at that path does not exist when the response is returned,
\* whatever the outcome (result, -32602, -32603).
C2_PrimaryScratchReleased ==
    (last.op = "tools/call" /\ last.path # NoPath)
        => ~PathExists(scratch, temp_dir_exists, last.path)

\* the object store is asked for and its initialization fails in environment e
S3InitFails(e) ==
    /\ lower(getenv(e.STORAGE_TYPE, "disk")) = "s3"
    /\ \/ e.S3_BUCKET_NAME = Unset
       \/ e.AWS_ACCESS_KEY_ID = Unset
       \/ e.AWS_SECRET_ACCESS_KEY = Unset
       \/ e.head_bucket # "ok"

\* the last call constructed the storage adapter in environment last.env
Constructed ==
    /\ last.op = "get_storage_adapter"
    /\ last.err = ""
    /\ ~last.ret
    /\ last.env # NoEnv

\* C3: when the object store is preferred and its initialization
\* fails, the mounted-volume backend is tried next and selected if it
\* initializes; local is selected only if the volume fails as well.
C3_S3FallsBackToVolume ==
    (Constructed /\ S3InitFails(last.env))
        => IF last.env.makedirs_disk = "ok"
           THEN storage_adapter.storage_type = "disk"
           ELSE storage_adapter.storage_type = "local"

\* C4: when the backend holds N and the scratch directory exists,
\* resolve(N, flag) returns scratch_dir/N, the file there has the backend's bytes
\* for N, and the path is not the backend's own file -- on every backend.
C4_ResolveFetchesIntoScratch ==
    (last.op = "get_local_path" /\ last.name \in DOMAIN store /\ temp_dir_exists)
        => /\ last.err = ""
           /\ last.path = TempPath(last.name)
           /\ PathExists(scratch, temp_dir_exists, last.path)
           /\ ReadPath(store, scratch, last.path) = store[last.name]

\* C5: when the backend does not hold N, resolve(N, FALSE) fails
\* with NotFound and creates no scratch file; resolve(N, TRUE) returns
\* scratch_dir/N, at which no file exists and whose parent directory exists;
\* the backend is unchanged in both cases.
C5_ResolveMissingNoFile ==
    [][ (last'.op = "get_local_path" /\ last'.name \notin DOMAIN store)
        => /\ store' = store
           /\ IF last'.flag
              THEN /\ last'.err = ""
                   /\ last'.path = TempPath(last'.name)
                   /\ temp_dir_exists'
                   /\ ~PathExists(scratch', temp_dir_exists', last'.path)
              ELSE /\ last'.err = "FileNotFoundError"
                   /\ scratch' = scratch ]_vars

\* C6: put(src, N) with src holding B, followed by fetch(N, dest), yields a path
\* whose bytes are B, on every backend, also when N held other content before;
\* a fetch returns the contents last put under its name (when that put succeeded).
C6_PutFetchRoundTrip ==
    /\ (last.op = "upload_document" /\ last.err = "")
        => \A dest \in Names :
             LET d == download_document(storage_adapter, store, scratch, TRUE,
                                        last.name, TempPath(dest))
             IN  /\ d.err = ""
                 /\ ReadPath(store, d.scratch, d.path) = last.bytes
    /\ (last.op = "download_document" /\ last.err = "")
        => /\ last.name \in DOMAIN live
           /\ live[last.name] # 0 => last.body = live[last.name]

C6_Witness ==
    /\ last.op = "upload_document" /\ last.err = ""
    /\ last.body # 0 /\ last.body # last.bytes
    /\ ReadPath(store, scratch, StorePath(last.name)) = last.bytes

\* C7: exists(N) is false for a name never put or deleted since, true in the
\* state right after a successful put(src, N), and exists changes nothing.
C7_ExistsTracksPuts ==
    [][ /\ storage_adapter'.storage_type # "none"
          => \A n \in Names :
               /\ n \notin DOMAIN live' => ~document_exists(storage_adapter', store', n)
               /\ (n \in DOMAIN live' /\ live'[n] # 0)
                    => document_exists(storage_adapter', store', n)
        /\ last'.op = "document_exists"
          => /\ last'.name \notin DOMAIN live => ~last'.ret
             /\ (last'.name \in DOMAIN live /\ live[last'.name] # 0) => last'.ret
             /\ store' = store /\ scratch' = scratch /\ live' = live
        /\ (last'.op = "upload_document" /\ last'.err = "")
          => document_exists(storage_adapter', store', last'.name) ]_vars

C7_Witness ==
    /\ last.op = "document_exists" /\ ~last.ret
    /\ storage_adapter.storage_type = "s3"
    /\ live # EmptyDir

\* C8: on every backend, delete(N) returns false and leaves the backend
\* unchanged when N is not stored; when N is stored it returns true, N no longer
\* exists afterwards and every other document is unchanged.
C8_DeleteReportsRemoval ==
    [][ (last'.op = "delete_document" /\ last'.err = "")
        => IF last'.name \notin DOMAIN store
           THEN ~last'.ret /\ store' = store
           ELSE /\ last'.ret
                /\ ~document_exists(storage_adapter', store', last'.name)
                /\ store' = RemoveFile(store, last'.name) ]_vars

\* C9: a tools/call of a name that is not registered answers -32601 before
\* any resource is allocated: no adapter or manager is constructed, no backend
\* call is made, no operation runs, backend and scratch directory are unchanged.
C9_UnknownToolRejectedFirst ==
    [][ (last'.op = "tools/call" /\ last'.tool \notin TOOL_REGISTRY)
        => /\ last'.code = METHOD_NOT_FOUND
           /\ last'.calls = 0
           /\ ~last'.invoked
           /\ last'.path = NoPath /\ last'.source_path = NoPath
           /\ UNCHANGED <<storage_adapter, store, manager, temp_dir_exists, scratch, live>> ]_vars

C9_Witness ==
    /\ last.op = "tools/call" /\ last.tool = "does_not_exist"
    /\ last.has_name /\ basename(last.name) \in DOMAIN store
    /\ last.has_source
    /\ last.code = METHOD_NOT_FOUND

\* w is one of the words of the underscore-separated name s
HasWord(s, w) ==
    \E i \in 1..(Len(s) - Len(w) + 1) :
        /\ SubSeq(s, i, i + Len(w) - 1) = w
        /\ (i = 1 \/ SubSeq(s, i - 1, i - 1) = "_")
        /\ (i + Len(w) - 1 = Len(s) \/ SubSeq(s, i + Len(w), i + Len(w)) = "_")

\* the registered operations that do not create: no creation verb in the name
NonCreating(tool_name) ==
    /\ tool_name \in TOOL_REGISTRY
    /\ ~HasWord(tool_name, "create")
    /\ ~HasWord(tool_name, "add")

\* C10: a tools/call of a registered operation that does not create documents,
\* whose primary document is absent from the (initialized) backend, answers
\* -32602, does not invoke the operation and publishes nothing.
C10_MissingDocumentRejected ==
    [][ ( /\ last'.op = "tools/call"
          /\ NonCreating(last'.tool)
          /\ last'.has_name
          /\ basename(last'.name) \notin DOMAIN store
          /\ storage_adapter'.storage_type # "none" )
        => /\ last'.code = INVALID_PARAMS
           /\ ~last'.invoked
           /\ last'.published = ""
           /\ store' = store ]_vars

\* C11: an exception raised during a tools/call (constructing the manager,
\* resolving a document other than the reported missing-document case, the
\* operation, the publish) is answered as JSON-RPC error -32603 carrying the
\* exception's message, in an ordinary HTTP 200 response: it never leaves the
\* dispatcher as a transport fault.
C11_ExceptionsAnswered ==
    (last.op = "tools/call")
        => /\ last.status = HTTP_OK
           /\ (last.err # "")
                => /\ last.code = INTERNAL_ERROR
                   /\ last.message = last.err
           /\ (last.code = INTERNAL_ERROR) => last.err # ""

C11_Witness ==
    /\ last.op = "tools/call"
    /\ last.invoked /\ last.fault
    /\ last.err # "" /\ last.code = INTERNAL_ERROR

\* the primary document's name, normalized to end in ".docx"
Normalized(filename) ==
    IF EndsWith(basename(filename), ".docx") THEN basename(filename)
    ELSE basename(filename) \o ".docx"

C13_ResolveThenPublish ==
    /\ (last.op = "get_local_path" /\ last.err = "" /\ last.name \in DOMAIN store)
        => LET p == save_document(storage_adapter, store, scratch, last.path,
                                  last.name, "")
           IN  /\ p.err = ""
               /\ p.locator # ""
    /\ (last.op = "tools/call" /\ last.invoked /\ last.outcome # "raised" /\ ~last.fault)
        => last.code = 0

\* the MIME type of a Word document
DocxMime == "application/vnd.openxmlformats-officedocument.wordprocessingml.document"

\* C14: GET /documents/{name} decodes the name and takes its basename; if the
\* backend holds that document the answer is 200 with the backend's bytes, if
\* not it is 404; afterwards no scratch file of that name remains and the
\* backend is unchanged.
C14_DownloadServesBackendBytes ==
    [][ (last'.op = "GET /documents" /\ storage_adapter'.storage_type # "none")
        => LET n == basename(unquote(last'.name))
           IN  /\ IF n \in DOMAIN store
                  THEN last'.code = HTTP_OK /\ last'.body = store[n]
                  ELSE last'.code = HTTP_NOT_FOUND
               /\ n \notin DOMAIN scratch'
               /\ store' = store ]_vars

\* C15: a successful GET /documents/{name} declares exactly one Content-Type,
\* the document MIME type (not application/json), and a Content-Disposition
\* attachment header naming the file.
C15_DownloadHeaders ==
    (last.op = "GET /documents" /\ last.code = HTTP_OK)
        => /\ last.content_type = <<DocxMime>>
           /\ last.disposition =
                 "attachment; filename=\"" \o basename(unquote(last.name)) \o "\""

\* the last call was the first get_storage_adapter(): it ran StorageAdapter()
FirstUse == last.op = "get_storage_adapter" /\ ~last.ret

\* the attribute that holds a backend's connection or path
BackendState(tag) ==
    IF tag = "s3" THEN "s3_client" ELSE IF tag = "disk" THEN "disk_path" ELSE "local_path"

\* C16: for every storage configuration (known, unset, unrecognized) and every
\* pattern of initialization failures, construction succeeds, storage_type is
\* one of s3, disk, local, the state of that backend is initialized, and the
\* public URL of a document is that backend's (never the bare name).
C16_OneBackendActive ==
    FirstUse
        => /\ last.err = ""
           /\ storage_adapter.storage_type \in {"s3", "disk", "local"}
           /\ BackendState(storage_adapter.storage_type) \in storage_adapter.attrs
           /\ \A n \in Names : get_document_url(storage_adapter, n, FALSE) # n

\* C17: when the mounted volume is preferred and creating its root directory
\* fails for whatever reason, construction does not raise and the local
\* filesystem backend is selected.
C17_VolumeFallsBackToLocal ==
    ( /\ FirstUse
      /\ lower(getenv(last.env.STORAGE_TYPE, "disk")) = "disk"
      /\ last.env.makedirs_disk # "ok" )
        => /\ last.err = ""
           /\ storage_adapter.storage_type = "local"
           /\ "local_path" \in storage_adapter.attrs

\* C18: once the adapter is constructed it never changes: whatever is called
\* afterwards, and whether it fails or not, storage_type and the instance stay
\* as they are, and get_storage_adapter returns the instance without selecting
\* a backend again, whatever the environment has become.
C18_BackendNeverChanges ==
    [][ (storage_adapter.storage_type # "none")
        => /\ storage_adapter' = storage_adapter
           /\ (last'.op = "get_storage_adapter") => (last'.ret /\ last'.err = "") ]_vars

C18_Witness ==
    /\ last.op = "get_storage_adapter" /\ last.ret
    /\ storage_adapter.storage_type = "local"
    /\ StorageAdapterInit(last.env).storage_type = "s3"
    /\ store # EmptyDir

\* C19: cleanup() removes the whole scratch directory and cleanup(name) removes
\* only scratch_dir/name, leaving every other scratch file and the backend as
\* they are; neither raises, also when there is nothing to remove, and a second
\* call with the same argument changes nothing and raises nothing.
C19_CleanupIdempotent ==
    [][ (last'.op = "cleanup_temp")
        => /\ last'.err = ""
           /\ store' = store
           /\ IF last'.name = ""
              THEN scratch' = EmptyDir /\ ~temp_dir_exists'
              ELSE /\ last'.name \notin DOMAIN scratch'
                   /\ \A n \in DOMAIN scratch \ {last'.name} :
                          n \in DOMAIN scratch' /\ scratch'[n] = scratch[n]
                   /\ DOMAIN scratch' \subseteq DOMAIN scratch
                   /\ temp_dir_exists' = temp_dir_exists
           /\ cleanup_temp(scratch', temp_dir_exists', last'.name)
                = [scratch |-> scratch', tmp |-> temp_dir_exists', err |-> ""] ]_vars

C19_Witness ==
    /\ last.op = "cleanup_temp" /\ last.name = ""
    /\ ~last.ret /\ last.err = ""
    /\ manager /\ ~temp_dir_exists
    /\ store # EmptyDir

\* C20: whatever the operation and the declared type, a parameter named
\* "position" gets the enum ["before", "after"], and no parameter of another
\* name gets that enum.
C20_PositionEnum ==
    (last.op = "_get_tool_schema")
        => \A i \in 1..Len(last.sig) :
             (last.sig[i].name # "self")
               => /\ last.sig[i].name \in DOMAIN last.schema.properties
                  /\ (last.sig[i].name = "position")
                       <=> (last.schema.properties[last.sig[i].name].enum = <<"before", "after">>)

C20_Witness ==
    /\ last.op = "_get_tool_schema"
    /\ Len(last.sig) = 2
    /\ last.sig[2].name = "position"
    /\ last.sig[2].annotation = "typing.Optional[int]"
    /\ last.schema.properties["position"].type = "integer"
    /\ last.schema.properties["position"].enum = <<"before", "after">>
    /\ last.schema.properties["filename"].enum = <<>>

\* the schema type the mapping rule gives a declared type, Optional[T] taken as T
MappedType(annotation) ==
    LET t == unwrap_optional(annotation)
    IN  CASE t = "str" -> "string"
          [] t = "int" -> "integer"
          [] t = "float" -> "number"
          [] t = "bool" -> "boolean"
          [] t \in {"list", "list[str]", "typing.List[str]"} -> "array"
          [] t = "dict" -> "object"
          [] OTHER -> "string"

\* C21: schema inference maps each declared type to exactly one schema type:
\* str to string, int to integer, float to number, bool to boolean, every
\* list-of-strings annotation (list, list[str] and typing.List[str]) to array
\* with string items, dict to object, an untyped or unrecognized one to string;
\* Optional[T] maps as T does.
C21_TypeMapping ==
    (last.op = "_get_tool_schema")
        => \A i \in 1..Len(last.sig) :
             (last.sig[i].name # "self")
               => /\ last.schema.properties[last.sig[i].name].type
                       = MappedType(last.sig[i].annotation)
                  /\ last.schema.properties[last.sig[i].name].items
                       = (IF MappedType(last.sig[i].annotation) = "array" THEN "string" ELSE "")

\* the posted body is well-formed JSON
WellFormed(body) == body.utf8 /\ json_loads(body.text).err = ""

\* C22: POST /mcp/stream answers a body that is not well-formed JSON with 400
\* and dispatches no operation; it answers well-formed JSON with 200 and a
\* JSON-RPC envelope, or with 500 when an exception leaves the dispatcher (the
\* value is not an object); in every case exactly one response is sent.
C22_PostAnswered ==
    /\ (last.op = "POST /mcp/stream")
         => /\ last.responses = 1
            /\ ~last.invoked
            /\ IF WellFormed(last.request_body)
               THEN IF json_loads(last.request_body.text).type = "dict"
                    THEN last.status = HTTP_OK
                    ELSE last.status = HTTP_ERROR
               ELSE last.status = HTTP_BAD_REQUEST
    /\ (last.op = "tools/call")
         => /\ last.responses = 1
            /\ last.status \in {HTTP_OK, HTTP_ERROR}

\* C28: when a request has been answered (a tools/call with any outcome, copy-like
\* calls that carry source_filename included, or a GET /documents), the scratch
\* directory holds no file: every scratch copy fetched for the request, primary
\* or secondary, has been removed.
C28_ScratchEmptyAfterRequest ==
    (last.op \in {"tools/call", "GET /documents"}) => scratch = EmptyDir

\* C29: a tools/call whose operation does not modify its scratch file (a
\* read-only operation on an existing document) leaves the backend's set of
\* names and every document's bytes unchanged, for every stored name, one that
\* does not end in ".docx" included.
C29_ReadOnlyCallKeepsBackend ==
    [][ ( /\ last'.op = "tools/call"
          /\ last'.has_name
          /\ basename(last'.name) \in DOMAIN store
          /\ last'.invoked /\ last'.outcome \notin {"raised", "failed"} /\ ~last'.saved )
        => store' = store ]_vars

\* C30: GET /documents/{name} does not write to the backend, whichever backend
\* is active and whatever it answers (200, 404 or 500): the backend holds the
\* same documents with the same bytes after the request as before it.
C30_DownloadKeepsBackend ==
    [][ (last'.op = "GET /documents")
        => /\ store' = store
           /\ last'.code \in {HTTP_OK, HTTP_NOT_FOUND, HTTP_ERROR} ]_vars

C30_Witness ==
    /\ last.op = "GET /documents"
    /\ last.code = HTTP_OK
    /\ storage_adapter.storage_type = "disk"
    /\ last.path = TempPath("report.docx")
    /\ "report.docx" \notin DOMAIN scratch
    /\ "report.docx" \in DOMAIN store
    /\ store["report.docx"] = last.body

\* a name without a directory component
PlainName(n) == ~Contains(n, "/") /\ ~IsDir(n)

\* C24: for every tools/call and GET /documents and every client-supplied name,
\* each name handed to the document manager and the storage adapter contains no
\* directory component: every scratch path is a direct child of the scratch
\* directory and every backend key is a plain basename.
C24_NamesAreBasenames ==
    (last.op \in {"tools/call", "GET /documents"})
        => /\ \A n \in last.passed : PlainName(n)
           /\ \A p \in {last.path, last.source_path} :
                  p # NoPath => (p.dir = "temp" /\ PlainName(p.name))
           /\ last.published # "" => PlainName(last.published)

\* the document name the wrapper works on
WrapperName == IF last.has_name THEN last.name ELSE last.source

\* C26: the wrapper called with a document name never raises: a missing
\* document, an exception of the operation or a failed publish comes back as a
\* text prefixed "Error:"; on success the result is the operation's result with
\* the storage locator appended; and in every case the scratch file of the
\* name's basename is gone when the wrapper returns.
C26_WrapperNeverRaises ==
    (last.op = "with_storage_sync" /\ (last.has_name \/ last.has_source))
        => /\ last.err = ""
           /\ \/ last.message = "Error"
              \/ last.message = "result+url" /\ last.locator # ""
           /\ basename(WrapperName) \notin DOMAIN scratch

\* the threads that are handling a request
InFlight == {h \in Handlers : handlers[h].pc # "idle"}

\* the scratch files the request of thread h has written, and those it found
\* when it came in and has left as they were
OwnFiles(h) ==
    {n \in DOMAIN scratch : \/ n \notin DOMAIN handlers[h].at_accept.scratch
                            \/ scratch[n] # handlers[h].at_accept.scratch[n]}

FoundFiles(h) == DOMAIN scratch \ OwnFiles(h)

\* C23: requests are processed one at a time: the steps of one tools/call or
\* download never interleave with those of another request, so at most one
\* request is in flight and at most one request's scratch files exist at any
\* moment.
C23_OneRequestAtATime ==
    /\ Cardinality(InFlight) <= 1
    /\ \A h \in InFlight : OwnFiles(h) = {} \/ FoundFiles(h) = {}

\* the scratch file thread h's request is working on or about to publish no
\* longer holds what the request's own last step left there
Collision(h) ==
    /\ handlers[h].kind = "tools/call"
    /\ handlers[h].pc \in {"invoke", "publish"}
    /\ handlers[h].s.local_path # NoPath
    /\ handlers[h].expected # 0
    /\ ReadPath(store, scratch, handlers[h].s.local_path) # handlers[h].expected

\* the request of thread h saved an update and published other bytes
LostUpdate(h) ==
    /\ handlers[h].kind = "tools/call"
    /\ handlers[h].pc \in {"cleanup", "respond"}
    /\ handlers[h].s.saved
    /\ handlers[h].s.published # ""
    /\ handlers[h].s.published_bytes # handlers[h].bytes

\* C25: two tools/call requests on the same document name use the same scratch
\* path, so if they interleaved one could overwrite or delete the file the
\* other is working on; with at most one request in flight no such state is
\* reachable: a request's scratch file holds what the request left there until
\* it is published, and what a request saved is what it publishes.
C25_NoCollisionWhenSerial ==
    \A h \in Handlers : ~Collision(h) /\ ~LostUpdate(h)

C25_Witness ==
    \E h \in InFlight :
        /\ handlers[h].kind = "tools/call"
        /\ handlers[h].pc = "publish"
        /\ handlers[h].name = "report.docx"
        /\ handlers[h].s.saved
        /\ handlers[h].s.local_path = TempPath("report.docx")
        /\ handlers[h].expected = handlers[h].bytes
        /\ ReadPath(store, scratch, handlers[h].s.local_path) = handlers[h].expected
        /\ "report.docx" \in DOMAIN store
        /\ store["report.docx"] # handlers[h].bytes

\* the request of thread h is a tools/call that has been taken up and has not
\* reached its publish step
BeforePublish(h) ==
    /\ handlers[h].kind = "tools/call"
    /\ handlers[h].pc \in {"resolve", "invoke", "publish"}

\* the request of thread h is a tools/call that ends in -32602, or in -32603
\* because the operation raised
EndsInError(h) ==
    /\ handlers[h].kind = "tools/call"
    /\ handlers[h].pc = "respond"
    /\ \/ handlers[h].s.code = INVALID_PARAMS
       \/ handlers[h].s.code = INTERNAL_ERROR /\ handlers[h].outcome = "raised"

\* C27: on every backend the stored documents change only through
\* the publish step: from the moment a tools/call is taken up until it publishes,
\* and at the end of a tools/call answered -32602 or -32603 after the operation
\* raised, the backend holds exactly the documents and contents it held before
\* the request.
C27_BackendChangesOnlyInPublish ==
    \A h \in Handlers :
        (BeforePublish(h) \/ EndsInError(h)) => store = handlers[h].at_accept.store

====
